---- MODULE Spec2Model ----
(***************************************************************************)
(* Rocketman V2: the position risk-management state machine                *)
(* (models/position_state.py), its historical replay                       *)
(* (utils/backtesting_utils.py), the parameter sweep                       *)
(* (backtesting/backtesting_executor.py) and the live controller's fill    *)
(* handling (rocketman_v2/rocketman.py).                                   *)
(*                                                                         *)
(* Numbers.  Prices are Decimals; a price is held as an integer number of  *)
(* ticks of 0.1 (100 -> 1000, 101.4 -> 1014).  Percentages and deltas are  *)
(* Decimal fractions held in units of 1/FracScale (0.01 -> 10).  A product *)
(* price * (1 + fraction) is held in units of tick/FracScale, and a        *)
(* quotient a / b is held as the exact pair <<a, b>>: every comparison the *)
(* code makes between such values is made here by cross-multiplication,    *)
(* which is exact.  Decimal rounds quotients to 28 significant digits;     *)
(* for the values of this model that rounding never changes the outcome of *)
(* a comparison against a fraction with three decimals.                    *)
(***************************************************************************)
EXTENDS Integers, Sequences, FiniteSets, TLC

\* ---------------------------------------------------------------- bounds
MaxBars == 4
MaxRange == 2
MaxSweepBars == 3
MaxEvents == 4

\* -------------------------------------------------------- representation
FracScale == 1000
NoPrice == -1

BUY == "BUY"
SELL == "SELL"
TradeTypes == {BUY, SELL}

Closes == {990, 1000, 1010, 1014, 1020, 1050}
Prices == Closes \cup {0, 900, 1005}
EntryPrices == {0, 1000}
Amounts == {1, 10}
TakeProfitPcts == {20, 50}
ActivationDeltas == {10, 20}
TrailingDeltas == {5}

Max(a, b) == IF a >= b THEN a ELSE b
Min(a, b) == IF a <= b THEN a ELSE b

VARIABLES
    position,
    raised,
    candles,
    params,
    events,
    idx,
    pc,
    metrics,
    active_positions,
    ranges,
    results,
    current,
    sweep_pc,
    candles_df,
    period,
    rsi,
    response,
    bars,
    interval,
    batch,
    batch_idx,
    polled,
    last_trade_time,
    current_candle,
    candle_trades,
    delivered,
    prices_since_armed,
    processed_data,
    executors,
    create_actions,
    stop_actions,
    highest_observed_price,
    stop_price,
    is_tracking,
    stop_loss_triggered,
    price_requests,
    ticks,
    observed_prices,
    stop_loss_tasks,
    ohlc_variables,
    trades_variables,
    polling_queries,
    sent_queries,
    polling_task,
    tasks,
    stop_calls,
    initialized,
    initialization_task,
    controller,
    connector_ready,
    candles_ready,
    ready_seen,
    strategy_ticks,
    update_tasks,
    action_tasks

vars == <<position, raised, candles, params, events, idx, pc, metrics,
          active_positions, ranges, results, current, sweep_pc,
          candles_df, period, rsi, response, bars, interval, batch, batch_idx,
          polled, last_trade_time, current_candle, candle_trades, delivered,
          prices_since_armed, processed_data, executors, create_actions,
          stop_actions, highest_observed_price, stop_price, is_tracking,
          stop_loss_triggered, price_requests, ticks, observed_prices,
          stop_loss_tasks, ohlc_variables, trades_variables, polling_queries,
          sent_queries, polling_task, tasks, stop_calls, initialized,
          initialization_task, controller, connector_ready, candles_ready,
          ready_seen, strategy_ticks, update_tasks, action_tasks>>

\* The close column of the controller's candles frame, the RSI period and the series calculate_rsi
\* returned.
indicator_vars == <<candles_df, period, rsi>>

IndicatorsIdle ==
    /\ candles_df = <<>>
    /\ period = 0
    /\ rsi = <<>>

\* A provider response and the bar sequence a candle fetcher returned for it.
fetch_vars == <<response, bars>>

FetchIdle ==
    /\ response = <<>>
    /\ bars = <<>>

\* The polling task of the Bitquery feed: the interval width in seconds, the
\* response being folded and the loop position in it, the locals
\* last_trade_time and current_candle, and the candles handed to the
\* subscribers.  polled and candle_trades record the trades polled so far and
\* the trades folded into current_candle.
polling_vars == <<interval, batch, batch_idx, polled, last_trade_time, current_candle, candle_trades, delivered>>

PollingIdle ==
    /\ interval = 0
    /\ batch = <<>>
    /\ batch_idx = 0
    /\ polled = <<>>
    /\ last_trade_time = NoPrice
    /\ current_candle = [none |-> TRUE]
    /\ candle_trades = <<>>
    /\ delivered = <<>>

\* The live strategy: the controller's processed_data and executor list, and
\* the two proposals of the last evaluation.
strategy_vars == <<processed_data, executors, create_actions, stop_actions>>

StrategyIdle ==
    /\ processed_data = [k \in {} |-> 0]
    /\ executors = <<>>
    /\ create_actions = <<>>
    /\ stop_actions = <<>>

\* The ai16z trailing-stop script: its four state fields, the on_tick tasks
\* waiting for a price response, the ticks so far, and what the script has
\* done: the prices it processed and the execute_stop_loss tasks it created.
script_vars == <<highest_observed_price, stop_price, is_tracking, stop_loss_triggered, price_requests, ticks, observed_prices, stop_loss_tasks>>

ScriptIdle ==
    /\ highest_observed_price = 0
    /\ stop_price = 0
    /\ is_tracking = FALSE
    /\ stop_loss_triggered = FALSE
    /\ price_requests = {}
    /\ ticks = 0
    /\ observed_prices = <<>>
    /\ stop_loss_tasks = <<>>

\* The "variables" dictionaries of the module-level OHLC_QUERY and
\* TRADES_QUERY, the feeds whose polling task has built its query, and the
\* request bodies sent so far.
template_vars == <<ohlc_variables, trades_variables, polling_queries, sent_queries>>

TemplatesIdle ==
    /\ ohlc_variables = [network |-> "mainnet", token |-> "", from |-> 0, till |-> 0, interval |-> 1]
    /\ trades_variables = [network |-> "mainnet", token |-> ""]
    /\ polling_queries = {}
    /\ sent_queries = <<>>

\* start_network / stop_network of one feed: the recorded _polling_task, the
\* state of every polling task created, and the stop_network calls waiting
\* for a task to end.
network_vars == <<polling_task, tasks, stop_calls>>

NetworkIdle ==
    /\ polling_task = 0
    /\ tasks = <<>>
    /\ stop_calls = {}

\* The V2 strategy's start-up: _initialized, the position of
\* _initialization_task, whether _controller exists, what the connector and
\* the candles feed report, the ready observations the start-up made, the
\* ticks so far, and the tasks on_tick has created.
startup_vars == <<initialized, initialization_task, controller, connector_ready, candles_ready, ready_seen, strategy_ticks, update_tasks, action_tasks>>

StartupIdle ==
    /\ initialized = FALSE
    /\ initialization_task = "none"
    /\ controller = FALSE
    /\ connector_ready = FALSE
    /\ candles_ready = FALSE
    /\ ready_seen = <<>>
    /\ strategy_ticks = 0
    /\ update_tasks = 0
    /\ action_tasks = 0

\* The script, the query templates, the feed's network task and the start-up.
service_vars == <<script_vars, template_vars, network_vars, startup_vars>>

ServiceIdle ==
    /\ ScriptIdle
    /\ TemplatesIdle
    /\ NetworkIdle
    /\ StartupIdle

\* What the subsystems other than the position replay leave alone.
feed_vars == <<indicator_vars, fetch_vars, polling_vars, strategy_vars, service_vars>>

FeedIdle ==
    /\ IndicatorsIdle
    /\ FetchIdle
    /\ PollingIdle
    /\ StrategyIdle
    /\ ServiceIdle

\* ------------------------------------------------------- PositionState
\* PositionState(...) as simulate_position constructs it; the dataclass
\* defaults give trailing_stop_price = None, is_trailing_stop_activated = False.
PositionState(trading_pair, trade_type, entry_price, amount, current_price, take_profit_price, trailing_stop_activation_price) ==
    [trading_pair |-> trading_pair,
     trade_type |-> trade_type,
     entry_price |-> entry_price,
     amount |-> amount,
     current_price |-> current_price,
     take_profit_price |-> take_profit_price,
     trailing_stop_activation_price |-> trailing_stop_activation_price,
     trailing_stop_price |-> NoPrice,
     is_trailing_stop_activated |-> FALSE]

\* Numerator of price_change; its denominator is entry_price.
price_change(pos, new_price) ==
    IF pos.trade_type = BUY
    THEN new_price - pos.entry_price
    ELSE pos.entry_price - new_price

\* The division by entry_price raises (DivisionByZero, or InvalidOperation
\* for 0/0) when entry_price is zero.
price_change_raises(pos) == pos.entry_price = 0

\* Variant: a strict threshold.
activation_reached_strict(pos, new_price) ==
    price_change(pos, new_price) * FracScale
        > pos.trailing_stop_activation_price * pos.entry_price

\* price_change >= self.trailing_stop_activation_price, for entry_price > 0
activation_reached(pos, new_price) ==
    price_change(pos, new_price) * FracScale
        >= pos.trailing_stop_activation_price * pos.entry_price

\* Variant: the stop follows every price.
trail_follows_price(pos, new_price) == new_price

\* The ratchet of an armed stop.
trail(pos, new_price) ==
    IF pos.trade_type = BUY
    THEN Max(pos.trailing_stop_price, new_price)
    ELSE Min(pos.trailing_stop_price, new_price)

\* Variant: arming does not seed the stop.
check_activation_unseeded(pos, new_price) ==
    IF ~pos.is_trailing_stop_activated /\ activation_reached(pos, new_price)
    THEN [pos EXCEPT !.is_trailing_stop_activated = TRUE]
    ELSE pos

\* Lines 32-40: an unarmed position arms when the change reaches the stored
\* delta, and seeds the stop with the new price.
check_activation(pos, new_price) ==
    IF ~pos.is_trailing_stop_activated /\ activation_reached(pos, new_price)
    THEN [pos EXCEPT !.is_trailing_stop_activated = TRUE,
                     !.trailing_stop_price = new_price]
    ELSE pos

\* Variant: an armed stop is never adjusted.
adjust_trailing_stop_never(pos, new_price) == pos

\* Lines 43-47: an armed stop follows the price in the favourable direction.
adjust_trailing_stop(pos, new_price) ==
    IF pos.is_trailing_stop_activated /\ pos.trailing_stop_price # NoPrice
    THEN [pos EXCEPT !.trailing_stop_price = trail(pos, new_price)]
    ELSE pos

\* Variant: every update also moves the entry price to the new price.
update_price_rebasing(pos, new_price) ==
    LET p1 == [pos EXCEPT !.current_price = new_price, !.entry_price = new_price]
    IN  IF ~p1.is_trailing_stop_activated /\ price_change_raises(p1)
        THEN [pos |-> p1, raised |-> TRUE]
        ELSE [pos |-> adjust_trailing_stop(check_activation(p1, new_price), new_price),
              raised |-> FALSE]

\* update_price: the position after the call, and whether the call raised.
\* A raise leaves current_price already assigned.
update_price(pos, new_price) ==
    LET p1 == [pos EXCEPT !.current_price = new_price]
    IN  IF ~p1.is_trailing_stop_activated /\ price_change_raises(p1)
        THEN [pos |-> p1, raised |-> TRUE]
        ELSE [pos |-> adjust_trailing_stop(check_activation(p1, new_price), new_price),
              raised |-> FALSE]

\* The prices passed to update_price from the arming call onward, given the
\* position before and after one call that did not raise.
armed_prices(before, after, new_price, seen) ==
    IF ~after.is_trailing_stop_activated THEN {}
    ELSE IF before.is_trailing_stop_activated THEN seen \cup {new_price}
    ELSE {new_price}

should_take_profit(pos) ==
    IF pos.trade_type = BUY
    THEN pos.current_price * FracScale >= pos.take_profit_price
    ELSE pos.current_price * FracScale <= pos.take_profit_price

\* Variant: an unarmed position stops out below (BUY) or above (SELL) its entry.
should_stop_loss_unarmed(pos) ==
    IF ~pos.is_trailing_stop_activated \/ pos.trailing_stop_price = NoPrice
    THEN IF pos.trade_type = BUY
         THEN pos.current_price < pos.entry_price
         ELSE pos.current_price > pos.entry_price
    ELSE IF pos.trade_type = BUY
         THEN pos.current_price <= pos.trailing_stop_price
         ELSE pos.current_price >= pos.trailing_stop_price

should_stop_loss(pos) ==
    IF ~pos.is_trailing_stop_activated \/ pos.trailing_stop_price = NoPrice
    THEN FALSE
    ELSE IF pos.trade_type = BUY
         THEN pos.current_price <= pos.trailing_stop_price
         ELSE pos.current_price >= pos.trailing_stop_price

\* Variant: the sign is not flipped for SELL.
unrealized_pnl_unsigned(pos) ==
    (pos.current_price - pos.entry_price) * pos.amount

unrealized_pnl(pos) ==
    LET price_diff == pos.current_price - pos.entry_price
    IN  (IF pos.trade_type = SELL THEN -price_diff ELSE price_diff) * pos.amount

\* The division raises when entry_price * amount is zero.
unrealized_pnl_percentage_raises(pos) == pos.entry_price * pos.amount = 0

\* An exact quotient n / d (d > 0) in lowest terms, as <<num, den>>.
Abs(n) == IF n < 0 THEN -n ELSE n
RECURSIVE GCD(_, _)
GCD(a, b) == IF b = 0 THEN a ELSE GCD(b, a % b)
Quotient(n, d) == LET g == GCD(Abs(n), d) IN <<n \div g, d \div g>>

\* unrealized_pnl / (entry_price * amount) * 100.
unrealized_pnl_percentage(pos) ==
    Quotient(unrealized_pnl(pos) * 100, pos.entry_price * pos.amount)

\* ----------------------------------------------------- simulate_position
None == [none |-> TRUE]
NoMetrics == [unset |-> TRUE]
EmptyDict == [k \in {} |-> 0]

\* A bar sequence of 5m candles as the candle source hands it over: bar i
\* carries the close closes[i] and a timestamp in ms, strictly increasing.
Bars(closes) ==
    [i \in 1..Len(closes) |->
        [timestamp |-> 1500000 + i * 300000, close |-> closes[i]]]

\* take_profit_price = entry_price * (1 + take_profit_percentage),
\* in units of tick / FracScale.
take_profit_price_at_entry(entry_price, trade_type, take_profit_percentage) ==
    entry_price * (FracScale + take_profit_percentage)

\* Variant: no guard on an empty bar sequence.
simulate_position_enter_unguarded(cs, entry_price, amount, trade_type, take_profit_percentage, trailing_stop_activation_delta) ==
    [position |-> PositionState("UNKNOWN", trade_type, entry_price, amount,
                      entry_price,
                      take_profit_price_at_entry(entry_price, trade_type,
                                                 take_profit_percentage),
                      trailing_stop_activation_delta),
     events |-> <<>>,
     returned |-> FALSE]

\* Lines 51-63: the empty-input return, else the position at entry.
simulate_position_enter(cs, entry_price, amount, trade_type, take_profit_percentage, trailing_stop_activation_delta) ==
    IF cs = <<>>
    THEN [position |-> None, events |-> <<>>, returned |-> TRUE]
    ELSE [position |-> PositionState("UNKNOWN", trade_type, entry_price, amount,
                          entry_price,
                          take_profit_price_at_entry(entry_price, trade_type,
                                                     take_profit_percentage),
                          trailing_stop_activation_delta),
          events |-> <<>>,
          returned |-> FALSE]

exit_event(candle, type, pos) ==
    [timestamp |-> candle.timestamp,
     type |-> type,
     price |-> pos.current_price,
     pnl |-> unrealized_pnl(pos),
     pnl_percentage |-> unrealized_pnl_percentage(pos)]

update_event(candle, pos) ==
    [timestamp |-> candle.timestamp,
     type |-> "update",
     price |-> pos.current_price,
     pnl |-> unrealized_pnl(pos),
     pnl_percentage |-> unrealized_pnl_percentage(pos),
     trailing_stop_activated |-> pos.is_trailing_stop_activated,
     trailing_stop_price |-> pos.trailing_stop_price]

\* Variant: the trailing stop is tested before take-profit.
exit_check_stop_first(pos) ==
    IF should_stop_loss(pos) THEN "trailing_stop"
    ELSE IF should_take_profit(pos) THEN "take_profit"
    ELSE "update"

\* The kind of event the loop body records for the updated position:
\* take-profit is tested first, then the trailing stop.
exit_check(pos) ==
    IF should_take_profit(pos) THEN "take_profit"
    ELSE IF should_stop_loss(pos) THEN "trailing_stop"
    ELSE "update"

\* Variant: the loop is never left early.
breaks_never(kind) == FALSE

\* The loop is left (break) after a take_profit or trailing_stop event.
breaks(kind) == kind # "update"

\* Variant: the exits are tested on the position before update_price.
simulate_bar_checks_first(pos, evs, candle) ==
    LET u == update_price(pos, candle.close)
        p == u.pos
        kind == exit_check(pos)
    IN  IF u.raised \/ unrealized_pnl_percentage_raises(p)
        THEN [position |-> p, events |-> evs, stop |-> TRUE, raised |-> TRUE]
        ELSE [position |-> p,
              events |-> Append(evs, IF kind = "update"
                                     THEN update_event(candle, p)
                                     ELSE exit_event(candle, kind, p)),
              stop |-> breaks(kind),
              raised |-> FALSE]

\* One iteration of the loop of lines 65-106 on one candle: the position and
\* the log after it, whether it left the loop (break) and whether it raised.
simulate_bar(pos, evs, candle) ==
    LET u == update_price(pos, candle.close)
        p == u.pos
        kind == exit_check(p)
    IN  IF u.raised \/ unrealized_pnl_percentage_raises(p)
        THEN [position |-> p, events |-> evs, stop |-> TRUE, raised |-> TRUE]
        ELSE [position |-> p,
              events |-> Append(evs, IF kind = "update"
                                     THEN update_event(candle, p)
                                     ELSE exit_event(candle, kind, p)),
              stop |-> breaks(kind),
              raised |-> FALSE]

RECURSIVE simulate_loop(_, _, _, _)
simulate_loop(pos, evs, cs, i) ==
    IF i > Len(cs)
    THEN [position |-> pos, events |-> evs, raised |-> FALSE]
    ELSE LET r == simulate_bar(pos, evs, cs[i])
         IN  IF r.stop
             THEN [position |-> r.position, events |-> r.events, raised |-> r.raised]
             ELSE simulate_loop(r.position, r.events, cs, i + 1)

\* Variant: the trailing delta is what arms the stop.
simulate_position_trailing_delta(cs, entry_price, amount, trade_type, take_profit_percentage, trailing_stop_activation_delta, trailing_stop_trailing_delta) ==
    LET e == simulate_position_enter(cs, entry_price, amount, trade_type,
                 take_profit_percentage, trailing_stop_trailing_delta)
    IN  IF e.returned
        THEN [position |-> e.position, events |-> e.events, raised |-> FALSE]
        ELSE simulate_loop(e.position, e.events, cs, 1)

\* simulate_position as one call: the returned (position, events), or raised.
simulate_position(cs, entry_price, amount, trade_type, take_profit_percentage, trailing_stop_activation_delta, trailing_stop_trailing_delta) ==
    LET e == simulate_position_enter(cs, entry_price, amount, trade_type,
                 take_profit_percentage, trailing_stop_activation_delta)
    IN  IF e.returned
        THEN [position |-> e.position, events |-> e.events, raised |-> FALSE]
        ELSE simulate_loop(e.position, e.events, cs, 1)

\* ---------------------------------------------- analyze_backtest_results
\* Variant: the first event's pnl instead of the maximum.
max_pnl_of_first(evs) == evs[1].pnl

RECURSIVE max_pnl_of(_)
max_pnl_of(evs) ==
    IF Len(evs) = 1 THEN evs[1].pnl
    ELSE Max(evs[1].pnl, max_pnl_of(Tail(evs)))

RECURSIVE min_pnl_of(_)
min_pnl_of(evs) ==
    IF Len(evs) = 1 THEN evs[1].pnl
    ELSE Min(evs[1].pnl, min_pnl_of(Tail(evs)))

\* The drawdown loop of lines 127-134 from event i on.  peak starts at
\* float("-inf"), held as NegInf; float(event["pnl"]) is the pnl in ticks.
NegInf == [neg_inf |-> TRUE, value |-> 0]
\* Variant: the peak is overwritten by every pnl.
peak_last(peak, pnl) == [neg_inf |-> FALSE, value |-> pnl]

peak_max(peak, pnl) ==
    IF peak.neg_inf THEN [neg_inf |-> FALSE, value |-> pnl]
    ELSE [neg_inf |-> FALSE, value |-> Max(peak.value, pnl)]

RECURSIVE drawdown_loop(_, _, _, _)
drawdown_loop(evs, i, peak, max_drawdown) ==
    IF i > Len(evs) THEN max_drawdown
    ELSE LET pnl == evs[i].pnl
             peak1 == peak_max(peak, pnl)
             drawdown == peak1.value - pnl
         IN  drawdown_loop(evs, i + 1, peak1, Max(max_drawdown, drawdown))

exit_reason_of(evs) == evs[Len(evs)].type

analyze_backtest_results(evs) ==
    IF evs = <<>>
    THEN EmptyDict
    ELSE [start_timestamp |-> evs[1].timestamp,
          end_timestamp |-> evs[Len(evs)].timestamp,
          final_pnl |-> evs[Len(evs)].pnl,
          final_pnl_percentage |-> evs[Len(evs)].pnl_percentage,
          max_pnl |-> max_pnl_of(evs),
          min_pnl |-> min_pnl_of(evs),
          max_drawdown |-> drawdown_loop(evs, 1, NegInf, 0),
          exit_reason |-> exit_reason_of(evs)]

\* --------------------------------------------------- RocketmanConfig
\* __post_init__ raises ValueError on a non-positive parameter (leverage
\* keeps its default 1).
RocketmanConfig_raises(order_amount, take_profit_percentage, trailing_stop_activation_price_delta, trailing_stop_trailing_delta) ==
    \/ order_amount <= 0
    \/ take_profit_percentage <= 0
    \/ trailing_stop_activation_price_delta <= 0
    \/ trailing_stop_trailing_delta <= 0

\* ------------------------------------------------ process_order_update
ConfigTradingPair == "AI16Z-USDC"
TradingPairs == {ConfigTradingPair, "SOL-USDC"}

\* The entry process_order_update stores for a fill; take_profit_price in
\* units of tick / FracScale.
active_position_entry(event, take_profit_percentage) ==
    [entry_price |-> event.price,
     amount |-> event.amount,
     trade_type |-> event.trade_type,
     take_profit_price |-> event.price * (FracScale + take_profit_percentage),
     trailing_stop_activated |-> FALSE,
     trailing_stop_price |-> NoPrice]

process_order_update(positions, event, config) ==
    IF event.trading_pair = config.trading_pair
    THEN [k \in DOMAIN positions \cup {event.trading_pair} |->
             IF k = event.trading_pair
             THEN active_position_entry(event, config.take_profit_percentage)
             ELSE positions[k]]
    ELSE positions

\* ------------------------------------------------------------- inputs
RECURSIVE SeqsUpTo(_, _)
SeqsUpTo(S, n) ==
    IF n = 0 THEN {<<>>}
    ELSE LET shorter == SeqsUpTo(S, n - 1)
         IN  shorter \cup {Append(q, x) : q \in {r \in shorter : Len(r) = n - 1}, x \in S}

ParamSet ==
    [entry_price : EntryPrices,
     amount : Amounts,
     trade_type : TradeTypes,
     take_profit_percentage : TakeProfitPcts,
     trailing_stop_activation_delta : ActivationDeltas,
     trailing_stop_trailing_delta : TrailingDeltas,
     trading_pair : {ConfigTradingPair}]

IdleParams ==
    [entry_price |-> 1000, amount |-> 1, trade_type |-> BUY,
     take_profit_percentage |-> 50, trailing_stop_activation_delta |-> 10,
     trailing_stop_trailing_delta |-> 5, trading_pair |-> ConfigTradingPair]

NoRanges == [take_profit_range |-> <<>>,
             trailing_stop_activation_range |-> <<>>,
             trailing_stop_trailing_range |-> <<>>]

SweepIdle ==
    /\ ranges = NoRanges
    /\ results = <<>>
    /\ current = 0
    /\ sweep_pc = "idle"

SimIdle ==
    /\ candles = <<>>
    /\ events = <<>>
    /\ idx = 0
    /\ metrics = NoMetrics
    /\ active_positions = EmptyDict

\* ------------------------------------------- a PositionState under calls
InitPosition ==
    /\ \E tt \in TradeTypes, e \in EntryPrices, a \in Amounts,
          tp \in TakeProfitPcts, d \in ActivationDeltas :
          /\ position = PositionState("UNKNOWN", tt, e, a, e,
                            take_profit_price_at_entry(e, tt, tp), d)
          /\ params = [IdleParams EXCEPT !.entry_price = e, !.amount = a,
                          !.trade_type = tt, !.take_profit_percentage = tp,
                          !.trailing_stop_activation_delta = d]
    /\ raised = FALSE
    /\ pc = "object"
    /\ SimIdle
    /\ SweepIdle
    /\ FeedIdle
    /\ prices_since_armed = {}

UpdatePrice(new_price) ==
    /\ pc = "object"
    /\ position' = update_price(position, new_price).pos
    /\ raised' = update_price(position, new_price).raised
    /\ prices_since_armed' =
           IF update_price(position, new_price).raised THEN prices_since_armed
           ELSE armed_prices(position, update_price(position, new_price).pos,
                             new_price, prices_since_armed)
    /\ UNCHANGED <<candles, params, events, idx, pc, metrics, active_positions,
                   ranges, results, current, sweep_pc>>
    /\ UNCHANGED feed_vars

NextPosition == \E new_price \in Prices : UpdatePrice(new_price)

SpecPosition == InitPosition /\ [][NextPosition]_vars

\* ----------------------------- a replay, its analysis, and the live fills
InitBacktest ==
    /\ pc = "call"
    /\ candles \in {Bars(c) : c \in SeqsUpTo(Closes, MaxBars)}
    /\ params \in ParamSet
    /\ position = None
    /\ raised = FALSE
    /\ events = <<>>
    /\ idx = 0
    /\ metrics = NoMetrics
    /\ active_positions = EmptyDict
    /\ SweepIdle
    /\ FeedIdle
    /\ prices_since_armed = {}

InitLive ==
    /\ pc = "live"
    /\ params \in {q \in ParamSet : q.entry_price = 1000 /\ q.amount = 1
                                    /\ q.trade_type = BUY}
    /\ position = None
    /\ raised = FALSE
    /\ SimIdle
    /\ SweepIdle
    /\ FeedIdle
    /\ prices_since_armed = {}

Init == InitBacktest \/ InitLive

\* simulate_position up to the loop: lines 51-63.
SimulateEnter ==
    /\ pc = "call"
    /\ LET e == simulate_position_enter(candles, params.entry_price, params.amount,
                    params.trade_type, params.take_profit_percentage,
                    params.trailing_stop_activation_delta)
       IN  /\ position' = e.position
           /\ events' = e.events
           /\ pc' = IF e.returned THEN "returned" ELSE "loop"
           /\ idx' = IF e.returned THEN idx ELSE 1
    /\ UNCHANGED <<raised, candles, params, metrics, active_positions,
                   ranges, results, current, sweep_pc>>
    /\ UNCHANGED <<feed_vars, prices_since_armed>>

\* One iteration of the loop on candles[idx]; the iteration that breaks, or
\* the one on the last candle, returns.
SimulateBar ==
    /\ pc = "loop"
    /\ idx <= Len(candles)
    /\ LET r == simulate_bar(position, events, candles[idx])
       IN  /\ position' = r.position
           /\ events' = r.events
           /\ raised' = r.raised
           /\ pc' = IF r.raised THEN "raised"
                    ELSE IF r.stop \/ idx = Len(candles) THEN "returned"
                    ELSE "loop"
    /\ idx' = idx + 1
    /\ prices_since_armed' =
           IF update_price(position, candles[idx].close).raised THEN prices_since_armed
           ELSE armed_prices(position, update_price(position, candles[idx].close).pos,
                             candles[idx].close, prices_since_armed)
    /\ UNCHANGED <<candles, params, metrics, active_positions,
                   ranges, results, current, sweep_pc>>
    /\ UNCHANGED feed_vars

\* The caller hands the returned events to analyze_backtest_results.
Analyze ==
    /\ pc = "returned"
    /\ metrics' = analyze_backtest_results(events)
    /\ pc' = "analyzed"
    /\ UNCHANGED <<position, raised, candles, params, events, idx,
                   active_positions, ranges, results, current, sweep_pc>>
    /\ UNCHANGED <<feed_vars, prices_since_armed>>

FillPrices == {1000, 1020}

ProcessOrderUpdate(event) ==
    /\ pc = "live"
    /\ active_positions' = process_order_update(active_positions, event, params)
    /\ UNCHANGED <<position, raised, candles, params, events, idx, pc, metrics,
                   ranges, results, current, sweep_pc>>
    /\ UNCHANGED <<feed_vars, prices_since_armed>>

Next ==
    \/ SimulateEnter
    \/ SimulateBar
    \/ Analyze
    \/ \E event \in [trading_pair : TradingPairs, price : FillPrices,
                     amount : Amounts, trade_type : TradeTypes] :
          ProcessOrderUpdate(event)

Spec == Init /\ [][Next]_vars

\* ------------------------------------------ run_parameter_optimization
total_combinations(rs) ==
    Len(rs.take_profit_range) * Len(rs.trailing_stop_activation_range)
        * Len(rs.trailing_stop_trailing_range)

\* The k-th (1-based) combination visited by the three nested loops.
combination(rs, k) ==
    LET na == Len(rs.trailing_stop_activation_range)
        nt == Len(rs.trailing_stop_trailing_range)
    IN  [tp |-> rs.take_profit_range[((k - 1) \div (na * nt)) + 1],
         tsa |-> rs.trailing_stop_activation_range[(((k - 1) \div nt) % na) + 1],
         tst |-> rs.trailing_stop_trailing_range[((k - 1) % nt) + 1]]

\* The result appended for a combination: the metrics tagged with its
\* parameters.
test_results(evs, c) ==
    LET m == analyze_backtest_results(evs)
    IN  [k \in DOMAIN m \cup {"parameters"} |->
            IF k = "parameters"
            THEN [take_profit_percentage |-> c.tp,
                  trailing_stop_activation_delta |-> c.tsa,
                  trailing_stop_trailing_delta |-> c.tst]
            ELSE m[k]]

\* One pass of the loop body of lines 126-161 for combination c.
run_combination(cs, entry_price, order_amount, trade_type, c) ==
    IF RocketmanConfig_raises(order_amount, c.tp, c.tsa, c.tst)
    THEN [raised |-> TRUE, result |-> EmptyDict]
    ELSE LET sim == simulate_position(cs, entry_price, order_amount, trade_type,
                                      c.tp, c.tsa, c.tst)
         IN  IF sim.raised
             THEN [raised |-> TRUE, result |-> EmptyDict]
             ELSE [raised |-> FALSE, result |-> test_results(sim.events, c)]

\* float(a) < float(b) for two pnl percentages <<num, den>>, den > 0.
pct_less(a, b) == a[1] * b[2] < b[1] * a[2]

\* Variant: the sort without reverse = True (ascending).
RECURSIVE insert_asc(_, _)
insert_asc(sorted, r) ==
    IF sorted = <<>> THEN <<r>>
    ELSE IF pct_less(r.final_pnl_percentage, Head(sorted).final_pnl_percentage)
         THEN <<r>> \o sorted
         ELSE <<Head(sorted)>> \o insert_asc(Tail(sorted), r)

\* results.sort(key = final_pnl_percentage, reverse = True): stable, so
\* results with equal keys keep their order.
RECURSIVE insert_desc(_, _)
insert_desc(sorted, r) ==
    IF sorted = <<>> THEN <<r>>
    ELSE IF pct_less(Head(sorted).final_pnl_percentage, r.final_pnl_percentage)
         THEN <<r>> \o sorted
         ELSE <<Head(sorted)>> \o insert_desc(Tail(sorted), r)

RECURSIVE sort_results(_, _)
sort_results(rs, n) ==
    IF n = 0 THEN <<>>
    ELSE insert_desc(sort_results(rs, n - 1), rs[n])

SweepCloses == {0, 990, 1000, 1020}
TakeProfitGrid == {0, 50}
ActivationRanges == {<<10>>, <<10, 20>>}
TrailingRanges == {<<5, 0>>, <<5, 30>>}

InitSweep ==
    /\ sweep_pc = "call"
    /\ candles \in {Bars(c) : c \in SeqsUpTo(SweepCloses, MaxSweepBars)}
    /\ params \in {q \in ParamSet : q.entry_price = 1000
                      /\ q.take_profit_percentage = 50
                      /\ q.trailing_stop_activation_delta = 10}
    /\ ranges \in [take_profit_range : SeqsUpTo(TakeProfitGrid, MaxRange),
                   trailing_stop_activation_range : ActivationRanges,
                   trailing_stop_trailing_range : TrailingRanges]
    /\ results = <<>>
    /\ current = 0
    /\ position = None
    /\ raised = FALSE
    /\ events = <<>>
    /\ idx = 0
    /\ metrics = NoMetrics
    /\ active_positions = EmptyDict
    /\ pc = "sweep"
    /\ FeedIdle
    /\ prices_since_armed = {}

\* Lines 100-120: the candles are loaded once; none ends the call.
SweepLoad ==
    /\ sweep_pc = "call"
    /\ sweep_pc' = IF candles = <<>> THEN "returned" ELSE "loop"
    /\ UNCHANGED <<position, raised, candles, params, events, idx, pc, metrics,
                   active_positions, ranges, results, current>>
    /\ UNCHANGED <<feed_vars, prices_since_armed>>

\* One combination of the grid; an exception leaves the call.
SweepCombination ==
    /\ sweep_pc = "loop"
    /\ current < total_combinations(ranges)
    /\ LET r == run_combination(candles, candles[1].close, params.amount,
                                params.trade_type, combination(ranges, current + 1))
       IN  /\ sweep_pc' = IF r.raised THEN "raised" ELSE "loop"
           /\ results' = IF r.raised THEN results ELSE Append(results, r.result)
    /\ current' = current + 1
    /\ UNCHANGED <<position, raised, candles, params, events, idx, pc, metrics,
                   active_positions, ranges>>
    /\ UNCHANGED <<feed_vars, prices_since_armed>>

\* Lines 163-165: sort and return.
SweepSort ==
    /\ sweep_pc = "loop"
    /\ current = total_combinations(ranges)
    /\ results' = sort_results(results, Len(results))
    /\ sweep_pc' = "returned"
    /\ UNCHANGED <<position, raised, candles, params, events, idx, pc, metrics,
                   active_positions, ranges, current>>
    /\ UNCHANGED <<feed_vars, prices_since_armed>>

NextSweep ==
    \/ SweepLoad
    \/ SweepCombination
    \/ SweepSort

SpecSweep == InitSweep /\ [][NextSweep]_vars

\* ------------------- run_parameter_optimization, one replay step at a time
\* The sweep with the replay of each combination unfolded into its steps:
\* position, events and idx are the locals of the simulate_position call in
\* progress, candles the list loaded once and handed to every call.
RunCloses == {0, 1000, 1015, 1030}
RunTakeProfits == {0, 20, 50}
RunActivationRanges == {<<10>>, <<10, 30>>, <<30, 10>>}
RunTrailingRanges == {<<5>>}

\* Variant: a call goes on with the position object of the call before it.
position_of_call_shared(previous, constructed) ==
    IF previous = None THEN constructed ELSE previous

\* Line 55: every simulate_position call binds its local position to a
\* PositionState it constructs; nothing of an earlier call is visible.
position_of_call(previous, constructed) == constructed

InitSweepRuns ==
    /\ sweep_pc = "call"
    /\ candles \in {Bars(c) : c \in SeqsUpTo(RunCloses, MaxSweepBars)}
    /\ params \in {q \in ParamSet : q.entry_price = 1000
                      /\ q.take_profit_percentage = 50
                      /\ q.trailing_stop_activation_delta = 10}
    /\ ranges \in [take_profit_range : SeqsUpTo(RunTakeProfits, MaxRange),
                   trailing_stop_activation_range : RunActivationRanges,
                   trailing_stop_trailing_range : RunTrailingRanges]
    /\ results = <<>>
    /\ current = 0
    /\ position = None
    /\ raised = FALSE
    /\ events = <<>>
    /\ idx = 0
    /\ metrics = NoMetrics
    /\ active_positions = EmptyDict
    /\ pc = "sweep"
    /\ FeedIdle
    /\ prices_since_armed = {}

\* Lines 126-148 and simulate_position up to its loop: the next combination,
\* its RocketmanConfig (which may raise) and the entry of the replay.
RunEnter ==
    /\ sweep_pc = "loop"
    /\ current < total_combinations(ranges)
    /\ current' = current + 1
    /\ LET c == combination(ranges, current + 1)
           e == simulate_position_enter(candles, candles[1].close, params.amount,
                    params.trade_type, c.tp, c.tsa)
       IN  IF RocketmanConfig_raises(params.amount, c.tp, c.tsa, c.tst)
           THEN /\ sweep_pc' = "raised"
                /\ UNCHANGED <<position, events, idx>>
           ELSE /\ sweep_pc' = "run"
                /\ position' = position_of_call(position, e.position)
                /\ events' = e.events
                /\ idx' = 1
    /\ prices_since_armed' = {}
    /\ UNCHANGED <<raised, candles, params, pc, metrics, active_positions,
                   ranges, results>>
    /\ UNCHANGED feed_vars

\* One iteration of the replay loop of the call in progress.
RunBar ==
    /\ sweep_pc = "run"
    /\ idx <= Len(candles)
    /\ LET r == simulate_bar(position, events, candles[idx])
       IN  /\ position' = r.position
           /\ events' = r.events
           /\ sweep_pc' = IF r.raised THEN "raised"
                          ELSE IF r.stop \/ idx = Len(candles) THEN "simulated"
                          ELSE "run"
    /\ idx' = idx + 1
    /\ prices_since_armed' =
           IF update_price(position, candles[idx].close).raised THEN prices_since_armed
           ELSE armed_prices(position, update_price(position, candles[idx].close).pos,
                             candles[idx].close, prices_since_armed)
    /\ UNCHANGED <<raised, candles, params, pc, metrics, active_positions,
                   ranges, results, current>>
    /\ UNCHANGED feed_vars

\* Lines 151-161: the returned events are analysed, tagged and appended.
RunRecord ==
    /\ sweep_pc = "simulated"
    /\ results' = Append(results, test_results(events, combination(ranges, current)))
    /\ sweep_pc' = "loop"
    /\ UNCHANGED <<position, raised, candles, params, events, idx, pc, metrics,
                   active_positions, ranges, current>>
    /\ UNCHANGED <<feed_vars, prices_since_armed>>

NextSweepRuns ==
    \/ SweepLoad
    \/ RunEnter
    \/ RunBar
    \/ RunRecord
    \/ SweepSort

SpecSweepRuns == InitSweepRuns /\ [][NextSweepRuns]_vars

\* ------------------------- analyze_backtest_results on any event log
\* An event log as simulate_position writes it for a BUY of amount 1 entered
\* at 1000 whose pnl runs through pnls; the last event has the given type.
PnlValues == {-24, -10, 0, 14, 20}
EventTypes == {"update", "take_profit", "trailing_stop"}
EventLog(pnls, last_type) ==
    [i \in 1..Len(pnls) |->
        LET pos == [PositionState("UNKNOWN", BUY, 1000, 1, 1000,
                                  take_profit_price_at_entry(1000, BUY, 50), 50)
                    EXCEPT !.current_price = 1000 + pnls[i]]
            candle == [timestamp |-> 1500000 + i * 300000, close |-> 1000 + pnls[i]]
        IN  IF i = Len(pnls) /\ last_type # "update"
            THEN exit_event(candle, last_type, pos)
            ELSE update_event(candle, pos)]

InitAnalyze ==
    /\ pc = "returned"
    /\ events \in {EventLog(q, t) : q \in SeqsUpTo(PnlValues, MaxEvents), t \in EventTypes}
    /\ candles = <<>>
    /\ params = IdleParams
    /\ position = None
    /\ raised = FALSE
    /\ idx = 0
    /\ metrics = NoMetrics
    /\ active_positions = EmptyDict
    /\ SweepIdle
    /\ FeedIdle
    /\ prices_since_armed = {}

NextAnalyze == Analyze

SpecAnalyze == InitAnalyze /\ [][NextAnalyze]_vars

\* ------------------- simulate_position called with unvalidated arguments
\* simulate_position is a static method: nothing ties its arguments to a
\* validated RocketmanConfig.
UnvalidatedParams ==
    [entry_price : {1000},
     amount : {0, 1},
     trade_type : TradeTypes,
     take_profit_percentage : {0, 50},
     trailing_stop_activation_delta : {0, 10},
     trailing_stop_trailing_delta : {0, 5},
     trading_pair : {ConfigTradingPair}]

InitUnvalidated ==
    /\ pc = "call"
    /\ candles \in {Bars(c) : c \in SeqsUpTo(Closes, MaxBars) \ {<<>>}}
    /\ params \in UnvalidatedParams
    /\ position = None
    /\ raised = FALSE
    /\ events = <<>>
    /\ idx = 0
    /\ metrics = NoMetrics
    /\ active_positions = EmptyDict
    /\ SweepIdle
    /\ FeedIdle
    /\ prices_since_armed = {}

NextReplay ==
    \/ SimulateEnter
    \/ SimulateBar
    \/ Analyze

SpecUnvalidated == InitUnvalidated /\ [][NextReplay]_vars

\* ------------------------------------- BacktestingExecutor, from the load
\* What fetch_birdeye_candles does for load_candles: it returns a bar
\* sequence (possibly empty) or raises.
FetchOutcomes ==
    {[raised |-> TRUE, candles |-> <<>>]}
        \cup {[raised |-> FALSE, candles |-> Bars(c)] :
                 c \in SeqsUpTo(SweepCloses, MaxSweepBars)}

\* load_candles swallows the exception and returns [].
load_candles(fetched) == IF fetched.raised THEN <<>> ELSE fetched.candles

\* Variant: the empty load is not detected.
no_candles_never(cs) == FALSE

\* `if not candles` of run_backtest and run_parameter_optimization.
no_candles(cs) == cs = <<>>

\* The "config" entry run_backtest adds to its results.
backtest_config(config, trade_type, entry_price) ==
    [order_amount |-> config.amount,
     take_profit_percentage |-> config.take_profit_percentage,
     trailing_stop_activation_delta |-> config.trailing_stop_activation_delta,
     trailing_stop_trailing_delta |-> config.trailing_stop_trailing_delta,
     trade_type |-> trade_type,
     entry_price |-> entry_price]

\* run_backtest after the load: what it returns, or that it raised;
\* entry_price = NoPrice is the default None.  candles[0] of an empty list
\* raises IndexError.
run_backtest(cs, config, trade_type, entry_price) ==
    IF no_candles(cs)
    THEN [raised |-> FALSE, results |-> EmptyDict, position |-> None, events |-> <<>>]
    ELSE IF entry_price = NoPrice /\ cs = <<>>
    THEN [raised |-> TRUE, results |-> NoMetrics, position |-> None, events |-> <<>>]
    ELSE LET entry == IF entry_price = NoPrice THEN cs[1].close ELSE entry_price
             sim == simulate_position(cs, entry, config.amount, trade_type,
                        config.take_profit_percentage,
                        config.trailing_stop_activation_delta,
                        config.trailing_stop_trailing_delta)
             m == analyze_backtest_results(sim.events)
         IN  IF sim.raised
             THEN [raised |-> TRUE, results |-> NoMetrics,
                   position |-> sim.position, events |-> sim.events]
             ELSE [raised |-> FALSE,
                   results |-> [k \in DOMAIN m \cup {"config"} |->
                                   IF k = "config"
                                   THEN backtest_config(config, trade_type, entry)
                                   ELSE m[k]],
                   position |-> sim.position, events |-> sim.events]

\* The first line format_backtest_results prints; a results dict without the
\* metrics makes it raise KeyError.
format_backtest_results(res) ==
    IF DOMAIN res = {} THEN "No backtest results available"
    ELSE IF "final_pnl" \notin DOMAIN res THEN "KeyError"
    ELSE "Backtest Results:"

InitExecutor ==
    /\ pc = "executor"
    /\ sweep_pc = "idle"
    /\ candles = <<>>
    /\ params \in {q \in ParamSet : q.entry_price = 1000
                      /\ q.take_profit_percentage = 50
                      /\ q.trailing_stop_activation_delta = 10}
    /\ ranges \in [take_profit_range : SeqsUpTo(TakeProfitGrid, MaxRange),
                   trailing_stop_activation_range : ActivationRanges,
                   trailing_stop_trailing_range : TrailingRanges]
    /\ results = <<>>
    /\ current = 0
    /\ position = None
    /\ raised = FALSE
    /\ events = <<>>
    /\ idx = 0
    /\ metrics = NoMetrics
    /\ active_positions = EmptyDict
    /\ FeedIdle
    /\ prices_since_armed = {}

\* run_backtest as one call, with what the candle source did.
RunBacktest(fetched, entry_price) ==
    /\ pc = "executor"
    /\ candles' = load_candles(fetched)
    /\ LET r == run_backtest(load_candles(fetched), params, params.trade_type, entry_price)
       IN  /\ metrics' = r.results
           /\ position' = r.position
           /\ events' = r.events
           /\ raised' = r.raised
           /\ pc' = IF r.raised THEN "backtest_raised" ELSE "backtest_returned"
    /\ UNCHANGED <<params, idx, active_positions, ranges, results, current, sweep_pc>>
    /\ UNCHANGED <<feed_vars, prices_since_armed>>

\* run_parameter_optimization up to its loop: lines 100-120.
StartOptimization(fetched) ==
    /\ pc = "executor"
    /\ candles' = load_candles(fetched)
    /\ results' = <<>>
    /\ current' = 0
    /\ sweep_pc' = IF no_candles(load_candles(fetched)) THEN "returned"
                   ELSE IF load_candles(fetched) = <<>> THEN "raised"
                   ELSE "loop"
    /\ pc' = "sweep"
    /\ UNCHANGED <<position, raised, params, events, idx, metrics,
                   active_positions, ranges>>
    /\ UNCHANGED <<feed_vars, prices_since_armed>>

NextExecutor ==
    \/ \E fetched \in FetchOutcomes, entry_price \in {NoPrice, 1000} :
          RunBacktest(fetched, entry_price)
    \/ \E fetched \in FetchOutcomes : StartOptimization(fetched)
    \/ SweepCombination
    \/ SweepSort

SpecExecutor == InitExecutor /\ [][NextExecutor]_vars

\* ------------------------------------------- RocketmanController, indicators
MaxSeries == 4

\* A pandas float: NaN, +inf, or the exact quotient num/den in lowest terms.
NaN == [nan |-> TRUE, inf |-> FALSE, num |-> 0, den |-> 1]
Inf == [nan |-> FALSE, inf |-> TRUE, num |-> 1, den |-> 1]
Val(n, d) == [nan |-> FALSE, inf |-> FALSE, num |-> Quotient(n, d)[1], den |-> Quotient(n, d)[2]]

\* series.diff(): the first element has no predecessor and is NaN.
diff(series) ==
    [i \in 1..Len(series) |->
        IF i = 1 THEN NaN ELSE Val(series[i] - series[i - 1], 1)]

\* delta.where(delta > 0, 0): the comparison is False on NaN, so NaN is
\* replaced by 0 as well.
where_positive(delta) ==
    [i \in DOMAIN delta |->
        IF ~delta[i].nan /\ delta[i].num > 0 THEN delta[i] ELSE Val(0, 1)]

\* -delta.where(delta < 0, 0)
negated_where_negative(delta) ==
    [i \in DOMAIN delta |->
        IF ~delta[i].nan /\ delta[i].num < 0 THEN Val(-delta[i].num, 1) ELSE Val(0, 1)]

RECURSIVE window_sum(_, _, _)
window_sum(s, from, to) ==
    IF from > to THEN 0 ELSE s[from].num + window_sum(s, from + 1, to)

\* s.rolling(window=period).mean() on an integer-valued series: min_periods
\* defaults to the window, so the mean is NaN until the window holds `period`
\* non-NaN observations.  Positions are 1-based here, 0-based in pandas.
rolling_mean(s, window) ==
    [i \in DOMAIN s |->
        IF i < window \/ \E j \in (i - window + 1)..i : s[j].nan THEN NaN
        ELSE Val(window_sum(s, i - window + 1, i), window)]

\* gain / loss on non-negative floats: x/0 is inf for x > 0, 0/0 is NaN.
divide(gain, loss) ==
    IF gain.nan \/ loss.nan THEN NaN
    ELSE IF loss.num = 0 THEN (IF gain.num = 0 THEN NaN ELSE Inf)
    ELSE Val(gain.num * loss.den, gain.den * loss.num)

\* 100 - (100 / (1 + rs)) for rs >= 0: 100 at inf, NaN at NaN.
rsi_of(rs) ==
    IF rs.nan THEN NaN
    ELSE IF rs.inf THEN Val(100, 1)
    ELSE Val(100 * rs.num, rs.num + rs.den)

calculate_rsi(series, window) ==
    LET delta == diff(series)
        gain == rolling_mean(where_positive(delta), window)
        loss == rolling_mean(negated_where_negative(delta), window)
    IN  [i \in DOMAIN series |-> rsi_of(divide(gain[i], loss[i]))]

\* The average loss calculate_rsi computes for each position.
average_loss(series, window) ==
    rolling_mean(negated_where_negative(diff(series)), window)

RsiCloses == {990, 1000, 1010}
RsiPeriods == {2, 3, 14}

\* Longer close series: an oscillating, a rising and a flat one.
Wave(n) == [i \in 1..n |-> 1000 + 10 * ((i * 7) % 5)]
Rising(n) == [i \in 1..n |-> 1000 + 10 * i]
Flat(n) == [i \in 1..n |-> 1000]
SampleSeries == {f[n] : f \in {[n \in {10, 20} |-> Wave(n)],
                               [n \in {10, 20} |-> Rising(n)],
                               [n \in {10, 20} |-> Flat(n)]},
                        n \in {10, 20}}

InitIndicators ==
    /\ pc = "indicators"
    /\ candles_df \in SeqsUpTo(RsiCloses, MaxSeries) \cup SampleSeries
    /\ period \in RsiPeriods
    /\ rsi = <<>>
    /\ params = IdleParams
    /\ position = None
    /\ raised = FALSE
    /\ SimIdle
    /\ SweepIdle
    /\ FetchIdle
    /\ PollingIdle
    /\ StrategyIdle
    /\ ServiceIdle
    /\ prices_since_armed = {}

CalculateRsi ==
    /\ pc = "indicators"
    /\ rsi' = calculate_rsi(candles_df, period)
    /\ pc' = "calculated"
    /\ UNCHANGED <<position, raised, candles, params, events, idx, metrics,
                   active_positions, ranges, results, current, sweep_pc,
                   candles_df, period>>
    /\ UNCHANGED <<fetch_vars, polling_vars, strategy_vars, service_vars, prices_since_armed>>

NextIndicators == CalculateRsi

SpecIndicators == InitIndicators /\ [][NextIndicators]_vars

\* ------------------------------------------------------- candle fetchers
MaxRecords == 3

\* One OHLCV record of a provider response: its time in seconds, its close
\* price, and the required fields it lacks.
RequiredFields == {"time", "close"}
RawRecords ==
    [time : {1, 2, 3}, close : {1000, 1010}, missing : {{}} \cup {{f} : f \in RequiredFields}]

\* The bar a fetcher builds from a well-formed record: the timestamp is the
\* provider's time in seconds converted to milliseconds.
candle_of(item) == [timestamp |-> item.time * 1000, close |-> item.close]

\* sorted(candles, key=timestamp) / candles.sort(key=...): a stable sort, so
\* bars of equal timestamp keep their order, and none is removed.
RECURSIVE insert_by_timestamp(_, _)
insert_by_timestamp(sorted, bar) ==
    IF sorted = <<>> THEN <<bar>>
    ELSE IF sorted[Len(sorted)].timestamp <= bar.timestamp THEN Append(sorted, bar)
    ELSE Append(insert_by_timestamp(SubSeq(sorted, 1, Len(sorted) - 1), bar),
                sorted[Len(sorted)])

RECURSIVE sort_by_timestamp(_, _)
sort_by_timestamp(cs, n) ==
    IF n = 0 THEN <<>>
    ELSE insert_by_timestamp(sort_by_timestamp(cs, n - 1), cs[n])

\* The conversion loop of fetch_birdeye_candles and of
\* BitqueryCandles.fetch_candles: item["..."] of an absent field raises
\* KeyError, which leaves the loop.
RECURSIVE convert_items(_, _, _)
convert_items(items, i, acc) ==
    IF i > Len(items) THEN [raised |-> FALSE, candles |-> acc]
    ELSE IF items[i].missing # {} THEN [raised |-> TRUE, candles |-> acc]
    ELSE convert_items(items, i + 1, Append(acc, candle_of(items[i])))

\* fetch_birdeye_candles on a 200 response: the converted items sorted, or []
\* from the handler of line 84 when the conversion raised.
fetch_birdeye_candles(items) ==
    LET c == convert_items(items, 1, <<>>)
    IN  IF c.raised THEN <<>>
        ELSE sort_by_timestamp(c.candles, Len(c.candles))

\* The loop of BirdeyeCandles.fetch_candles, lines 194-275.  The branch for
\* missing fields builds its message from
\* traceback.extract_tb(sys.exc_info()[2])[-1]; no exception is being
\* handled there, so the extracted list is empty and [-1] raises IndexError,
\* which the handler of line 271 does not catch.
RECURSIVE process_candles(_, _, _)
process_candles(data, i, acc) ==
    IF i > Len(data) THEN [raised |-> FALSE, candles |-> acc]
    ELSE IF data[i].missing # {} THEN [raised |-> TRUE, candles |-> acc]
    ELSE process_candles(data, i + 1, Append(acc, candle_of(data[i])))

\* BirdeyeCandles.fetch_candles on a 200 response: [] for no data, [] from
\* the handler of line 329 when the loop raised, else the sorted candles.
birdeye_fetch_candles(data) ==
    IF data = <<>> THEN <<>>
    ELSE LET c == process_candles(data, 1, <<>>)
         IN  IF c.raised THEN <<>>
             ELSE sort_by_timestamp(c.candles, Len(c.candles))

\* BitqueryCandles.fetch_candles on a 200 response.
bitquery_fetch_candles(trades) ==
    IF trades = <<>> THEN <<>>
    ELSE LET c == convert_items(trades, 1, <<>>)
         IN  IF c.raised THEN <<>>
             ELSE sort_by_timestamp(c.candles, Len(c.candles))

InitFetch ==
    /\ pc = "fetch"
    /\ response \in SeqsUpTo(RawRecords, MaxRecords)
    /\ bars = <<>>
    /\ params = IdleParams
    /\ position = None
    /\ raised = FALSE
    /\ SimIdle
    /\ SweepIdle
    /\ IndicatorsIdle
    /\ PollingIdle
    /\ StrategyIdle
    /\ ServiceIdle
    /\ prices_since_armed = {}

FetchUnchanged ==
    UNCHANGED <<position, raised, candles, params, events, idx, metrics, active_positions, ranges, results, current, sweep_pc, response, indicator_vars, polling_vars, strategy_vars, service_vars, prices_since_armed>>

FetchBirdeyeApi ==
    /\ pc = "fetch"
    /\ bars' = fetch_birdeye_candles(response)
    /\ pc' = "fetched_birdeye_api"
    /\ FetchUnchanged

FetchBirdeyeCandles ==
    /\ pc = "fetch"
    /\ bars' = birdeye_fetch_candles(response)
    /\ pc' = "fetched_birdeye_candles"
    /\ FetchUnchanged

FetchBitquery ==
    /\ pc = "fetch"
    /\ bars' = bitquery_fetch_candles(response)
    /\ pc' = "fetched_bitquery"
    /\ FetchUnchanged

NextFetch ==
    \/ FetchBirdeyeApi
    \/ FetchBirdeyeCandles
    \/ FetchBitquery

SpecFetch == InitFetch /\ [][NextFetch]_vars

\* ------------------------------------------------------ RocketmanStrategy
MaxExecutors == 3

\* The dictionaries the controller leaves in processed_data: the initial
\* empty one, or a current price (None after an error) with a signal.
ProcessedData ==
    {EmptyDict} \cup [current_price : {NoPrice, 1000, 1010, 1020}, signal : {0, 1}]

\* create_actions_proposal: one BUY executor action on signal 1.
create_actions_proposal(data, config) ==
    IF "signal" \in DOMAIN data /\ data.signal = 1
    THEN <<[trading_pair |-> config.trading_pair, side |-> BUY,
            entry_price |-> data.current_price, amount |-> config.amount]>>
    ELSE <<>>

\* Variant: the executors are stopped whatever the signal is.
stop_actions_proposal_any_signal(data, active_executors) ==
    IF "signal" \in DOMAIN data
    THEN [i \in 1..Len(active_executors) |-> [executor_id |-> active_executors[i]]]
    ELSE <<>>

\* stop_actions_proposal: one stop action per executor on signal 0.
stop_actions_proposal(data, active_executors) ==
    IF "signal" \in DOMAIN data /\ data.signal = 0
    THEN [i \in 1..Len(active_executors) |-> [executor_id |-> active_executors[i]]]
    ELSE <<>>

InitStrategy ==
    /\ pc = "strategy"
    /\ params \in {q \in ParamSet : q.entry_price = 1000 /\ q.trade_type = BUY}
    /\ StrategyIdle
    /\ position = None
    /\ raised = FALSE
    /\ SimIdle
    /\ SweepIdle
    /\ IndicatorsIdle
    /\ FetchIdle
    /\ PollingIdle
    /\ ServiceIdle
    /\ prices_since_armed = {}

StrategyUnchanged ==
    UNCHANGED <<position, raised, candles, params, events, idx, metrics, active_positions, ranges, results, current, sweep_pc, indicator_vars, fetch_vars, polling_vars, service_vars, prices_since_armed>>

\* The controller finished update_processed_data.
UpdateProcessedData(data) ==
    /\ pc \in {"strategy", "evaluated"}
    /\ processed_data' = data
    /\ pc' = "strategy"
    /\ UNCHANGED <<executors, create_actions, stop_actions>>
    /\ StrategyUnchanged

\* create_position_executor appends the new executor to the list.
CreatePositionExecutor ==
    /\ pc \in {"strategy", "evaluated"}
    /\ Len(executors) < MaxExecutors
    /\ executors' = Append(executors, Len(executors) + 1)
    /\ pc' = "strategy"
    /\ UNCHANGED <<processed_data, create_actions, stop_actions>>
    /\ StrategyUnchanged

\* One evaluation: both proposals on the same processed_data.
Evaluate ==
    /\ pc = "strategy"
    /\ create_actions' = create_actions_proposal(processed_data, params)
    /\ stop_actions' = stop_actions_proposal(processed_data, executors)
    /\ pc' = "evaluated"
    /\ UNCHANGED <<processed_data, executors>>
    /\ StrategyUnchanged

NextStrategy ==
    \/ \E data \in ProcessedData : UpdateProcessedData(data)
    \/ CreatePositionExecutor
    \/ Evaluate

SpecStrategy == InitStrategy /\ [][NextStrategy]_vars

\* -------------------------------------- BitqueryCandles, polling aggregator
MaxTrades == 3

\* None of last_trade_time.
NoTime == NoPrice

\* CONSTANTS.INTERVALS[self.interval], in seconds ("1m" and "5m").
Intervals == {60, 300}

\* The trades of a response: block time in seconds, price and amount.
Trades == [time : {610, 650, 700, 730}, price : {1000, 1010}, amount : {1, 2}]

\* Variant: no trade is skipped.
already_processed_never(last, timestamp) == FALSE

\* `if last_trade_time and timestamp <= last_trade_time`
already_processed(last, timestamp) ==
    last # NoTime /\ last # 0 /\ timestamp <= last

\* Variant: the trade's own time is taken as the candle timestamp.
candle_timestamp_unfloored(timestamp, w) == timestamp

\* int(timestamp) - (int(timestamp) % INTERVALS[interval])
candle_timestamp(timestamp, w) == timestamp - (timestamp % w)

\* Lines 210-218: the candle a trade starts.
start_candle(timestamp, price, amount) ==
    [timestamp |-> timestamp, open |-> price, high |-> price, low |-> price,
     close |-> price, volume |-> amount, trades |-> 1]

\* Variant: only close, volume and trades follow a further trade.
update_candle_close_only(c, price, amount) ==
    [c EXCEPT !.close = price, !.volume = c.volume + amount, !.trades = c.trades + 1]

\* Lines 221-229: a further trade of the same candle.
update_candle(c, price, amount) ==
    [c EXCEPT !.high = Max(c.high, price), !.low = Min(c.low, price),
              !.close = price, !.volume = c.volume + amount,
              !.trades = c.trades + 1]

\* _process_candle: the list handed to every subscriber, timestamp in ms.
candle_data(c) ==
    [timestamp |-> c.timestamp * 1000, open |-> c.open, high |-> c.high,
     low |-> c.low, close |-> c.close, volume |-> c.volume, trades |-> c.trades]

InitPolling ==
    /\ pc = "polling"
    /\ interval \in Intervals
    /\ batch = <<>>
    /\ batch_idx = 1
    /\ polled = <<>>
    /\ last_trade_time = NoTime
    /\ current_candle = None
    /\ candle_trades = <<>>
    /\ delivered = <<>>
    /\ params = IdleParams
    /\ position = None
    /\ raised = FALSE
    /\ SimIdle
    /\ SweepIdle
    /\ IndicatorsIdle
    /\ FetchIdle
    /\ StrategyIdle
    /\ ServiceIdle
    /\ prices_since_armed = {}

PollingUnchanged ==
    UNCHANGED <<position, raised, candles, params, events, idx, pc, metrics, active_positions, ranges, results, current, sweep_pc, indicator_vars, fetch_vars, strategy_vars, service_vars, prices_since_armed, interval>>

\* A 200 response with trades arrives once the previous one is folded; any
\* other response only sleeps and polls again.
Poll(trades) ==
    /\ pc = "polling"
    /\ batch_idx > Len(batch)
    /\ trades # <<>>
    /\ Len(polled) + Len(trades) <= MaxTrades
    /\ batch' = trades
    /\ batch_idx' = 1
    /\ polled' = polled \o trades
    /\ UNCHANGED <<last_trade_time, current_candle, candle_trades, delivered>>
    /\ PollingUnchanged

\* One iteration of the loop of lines 183-231.
ProcessTrade ==
    /\ pc = "polling"
    /\ batch_idx <= Len(batch)
    /\ batch_idx' = batch_idx + 1
    /\ LET trade == batch[batch_idx]
           ts == candle_timestamp(trade.time, interval)
       IN  IF already_processed(last_trade_time, trade.time)
           THEN UNCHANGED <<last_trade_time, current_candle, candle_trades, delivered>>
           ELSE /\ last_trade_time' = trade.time
                /\ IF current_candle = None
                   THEN /\ current_candle' = start_candle(ts, trade.price, trade.amount)
                        /\ candle_trades' = <<trade>>
                        /\ delivered' = delivered
                   ELSE IF current_candle.timestamp # ts
                   THEN /\ current_candle' = start_candle(ts, trade.price, trade.amount)
                        /\ candle_trades' = <<trade>>
                        /\ delivered' = Append(delivered, candle_data(current_candle))
                   ELSE /\ current_candle' = update_candle(current_candle, trade.price, trade.amount)
                        /\ candle_trades' = Append(candle_trades, trade)
                        /\ delivered' = delivered
    /\ UNCHANGED <<batch, polled>>
    /\ PollingUnchanged

NextPolling ==
    \/ \E n \in 1..(MaxTrades - Len(polled)) : \E trades \in [1..n -> Trades] : Poll(trades)
    \/ ProcessTrade

SpecPolling == InitPolling /\ [][NextPolling]_vars

\* ------------------------------------------------ the service subsystems
\* What the script, the query templates, the network task and the start-up
\* leave alone: the replay, the sweep, the indicators, the fetchers, the
\* polling aggregator and the live strategy.
core_vars == <<position, raised, candles, params, events, idx, metrics, active_positions, ranges, results, current, sweep_pc, prices_since_armed, indicator_vars, fetch_vars, polling_vars>>

CoreIdle ==
    /\ params = IdleParams
    /\ position = None
    /\ raised = FALSE
    /\ SimIdle
    /\ SweepIdle
    /\ IndicatorsIdle
    /\ FetchIdle
    /\ PollingIdle
    /\ prices_since_armed = {}

\* ------------------------------------------------- ai16zTrailingStop
MaxTicks == 4

\* self.trailing_stop_pct = Decimal("0.001"), in units of 1 / FracScale.
trailing_stop_pct == 1

\* The prices a response can carry; NoPrice is a response without a price
\* (or a request that raised).
ScriptPrices == {999, 1000, 1001, 1002}

\* current_price * (Decimal("1") - self.trailing_stop_pct), in units of
\* tick / FracScale.
stop_price_for(current_price) == current_price * (FracScale - trailing_stop_pct)

\* current_price <= self.stop_price
stop_reached(s, current_price) == current_price * FracScale <= s.stop_price

\* Variant: every price that does not trigger is taken as the new high.
is_new_high_always(s, current_price) == TRUE

\* current_price > self.highest_observed_price
is_new_high(s, current_price) == current_price > s.highest_observed_price

\* start_tracking and update_trailing_stop on the script's fields s, a record
\* that also holds the execute_stop_loss tasks created.
start_tracking(s, current_price) ==
    [s EXCEPT !.highest_observed_price = current_price,
              !.stop_price = stop_price_for(current_price),
              !.is_tracking = TRUE]

\* Variant: no early return once the stop loss has triggered.
update_trailing_stop_unguarded(s, current_price) ==
    IF stop_reached(s, current_price)
    THEN [s EXCEPT !.stop_loss_triggered = TRUE,
                   !.stop_loss_tasks = Append(@, current_price)]
    ELSE IF is_new_high(s, current_price)
    THEN [s EXCEPT !.highest_observed_price = current_price,
                   !.stop_price = stop_price_for(current_price)]
    ELSE s

update_trailing_stop(s, current_price) ==
    IF s.stop_loss_triggered THEN s
    ELSE IF stop_reached(s, current_price)
    THEN [s EXCEPT !.stop_loss_triggered = TRUE,
                   !.stop_loss_tasks = Append(@, current_price)]
    ELSE IF is_new_high(s, current_price)
    THEN [s EXCEPT !.highest_observed_price = current_price,
                   !.stop_price = stop_price_for(current_price)]
    ELSE s

\* on_tick from the price response on (lines 157-175); nothing is awaited
\* between the response and the end of the call.
on_price_response(s, sell_price_response) ==
    IF sell_price_response = NoPrice THEN s
    ELSE IF ~s.is_tracking THEN start_tracking(s, sell_price_response)
    ELSE update_trailing_stop(s, sell_price_response)

InitScript ==
    /\ pc = "script"
    /\ CoreIdle
    /\ StrategyIdle
    /\ ServiceIdle

ScriptUnchanged ==
    UNCHANGED <<pc, core_vars, strategy_vars, template_vars, network_vars, startup_vars>>

\* tick: a new on_tick task; with the markets ready it requests a price and
\* waits for the response, otherwise it returns at once.
Tick(markets_ready) ==
    /\ pc = "script"
    /\ ticks < MaxTicks
    /\ ticks' = ticks + 1
    /\ price_requests' = IF markets_ready THEN price_requests \cup {ticks + 1}
                         ELSE price_requests
    /\ UNCHANGED <<highest_observed_price, stop_price, is_tracking,
                   stop_loss_triggered, observed_prices, stop_loss_tasks>>
    /\ ScriptUnchanged

\* The response to the request of the on_tick task of tick t arrives and the
\* task runs to its end.  observed_prices records the price processed, the
\* stop it met and whether the stop loss had triggered once it was processed.
PriceResponse(t, sell_price_response) ==
    /\ pc = "script"
    /\ t \in price_requests
    /\ price_requests' = price_requests \ {t}
    /\ LET self == [highest_observed_price |-> highest_observed_price,
                    stop_price |-> stop_price,
                    is_tracking |-> is_tracking,
                    stop_loss_triggered |-> stop_loss_triggered,
                    stop_loss_tasks |-> stop_loss_tasks]
           s == on_price_response(self, sell_price_response)
       IN  /\ highest_observed_price' = s.highest_observed_price
           /\ stop_price' = s.stop_price
           /\ is_tracking' = s.is_tracking
           /\ stop_loss_triggered' = s.stop_loss_triggered
           /\ stop_loss_tasks' = s.stop_loss_tasks
           /\ observed_prices' =
                 IF sell_price_response = NoPrice THEN observed_prices
                 ELSE Append(observed_prices,
                             [tick |-> t, price |-> sell_price_response,
                              stop_price |-> stop_price,
                              triggered |-> s.stop_loss_triggered])
    /\ UNCHANGED ticks
    /\ ScriptUnchanged

NextScript ==
    \/ \E markets_ready \in BOOLEAN : Tick(markets_ready)
    \/ \E t \in 1..MaxTicks, r \in ScriptPrices \cup {NoPrice} : PriceResponse(t, r)

SpecScript == InitScript /\ [][NextScript]_vars

\* ---------------------------------- BitqueryCandles, the query templates
MaxQueries == 3

\* Two feed instances, their tokens (self._ex_trading_pair) and their
\* intervals in minutes (CONSTANTS.INTERVALS[self.interval] // 60).
Feeds == {1, 2}
ex_trading_pair(feed) == IF feed = 1 THEN "TOKEN_A" ELSE "TOKEN_B"
interval_minutes(feed) == IF feed = 1 THEN 1 ELSE 5

\* start_time and end_time of a fetch_candles call.
TimeRanges == {<<100, 200>>, <<300, 400>>}

\* query = TEMPLATE.copy(); query["variables"].update(u): dict.copy() is
\* shallow, so query["variables"] is the template's own dictionary and the
\* update is made in it.  The dictionary after the update.
variables_update(variables, u) ==
    [k \in DOMAIN variables |-> IF k \in DOMAIN u THEN u[k] ELSE variables[k]]

InitTemplates ==
    /\ pc = "templates"
    /\ CoreIdle
    /\ StrategyIdle
    /\ ServiceIdle

TemplatesUnchanged ==
    UNCHANGED <<pc, core_vars, strategy_vars, script_vars, network_vars, startup_vars>>

\* fetch_candles up to the request: the query is built and posted; nothing is
\* awaited between the update and the serialisation of the request body.
FetchCandles(feed, start_time, end_time) ==
    /\ pc = "templates"
    /\ Len(sent_queries) < MaxQueries
    /\ ohlc_variables' = variables_update(ohlc_variables,
                             [token |-> ex_trading_pair(feed), from |-> start_time,
                              till |-> end_time, interval |-> interval_minutes(feed)])
    /\ sent_queries' = Append(sent_queries,
                              [feed |-> feed, template |-> "OHLC_QUERY",
                               start_time |-> start_time, end_time |-> end_time,
                               variables |-> ohlc_variables'])
    /\ UNCHANGED <<trades_variables, polling_queries>>
    /\ TemplatesUnchanged

\* _start_polling before its loop: the query is built once.
StartPolling(feed) ==
    /\ pc = "templates"
    /\ feed \notin polling_queries
    /\ trades_variables' = variables_update(trades_variables,
                               [network |-> "mainnet", token |-> ex_trading_pair(feed)])
    /\ polling_queries' = polling_queries \cup {feed}
    /\ UNCHANGED <<ohlc_variables, sent_queries>>
    /\ TemplatesUnchanged

\* One request of the polling loop: json = query, whose "variables" is the
\* dictionary of TRADES_QUERY as it is now.
PollRequest(feed) ==
    /\ pc = "templates"
    /\ feed \in polling_queries
    /\ Len(sent_queries) < MaxQueries
    /\ sent_queries' = Append(sent_queries,
                              [feed |-> feed, template |-> "TRADES_QUERY",
                               start_time |-> 0, end_time |-> 0,
                               variables |-> trades_variables])
    /\ UNCHANGED <<ohlc_variables, trades_variables, polling_queries>>
    /\ TemplatesUnchanged

NextTemplates ==
    \/ \E feed \in Feeds, range \in TimeRanges : FetchCandles(feed, range[1], range[2])
    \/ \E feed \in Feeds : StartPolling(feed)
    \/ \E feed \in Feeds : PollRequest(feed)

SpecTemplates == InitTemplates /\ [][NextTemplates]_vars

\* -------------------------- BitqueryCandles.start_network / stop_network
MaxTasks == 4
MaxStopCalls == 3

\* self._polling_task = None
NoTask == 0

\* Task.cancel(): a request.  A polling task is "running", "cancelling"
\* (cancel() was called and the CancelledError has not been delivered yet)
\* or "done"; a task that is done is left as it is.
cancel(task_states, t) ==
    [task_states EXCEPT ![t] = IF @ = "running" THEN "cancelling" ELSE @]

InitNetwork ==
    /\ pc = "network"
    /\ CoreIdle
    /\ StrategyIdle
    /\ ServiceIdle

NetworkUnchanged ==
    UNCHANGED <<pc, core_vars, strategy_vars, script_vars, template_vars, startup_vars>>

\* start_network: a task is created only when none is recorded; the call
\* awaits nothing.
StartNetwork ==
    /\ pc = "network"
    /\ Len(tasks) < MaxTasks
    /\ IF polling_task = NoTask
       THEN /\ tasks' = Append(tasks, "running")
            /\ polling_task' = Len(tasks) + 1
       ELSE UNCHANGED <<polling_task, tasks>>
    /\ UNCHANGED stop_calls
    /\ NetworkUnchanged

\* stop_network up to `await self._polling_task`: the recorded task is
\* cancelled and the call waits for it.
StopNetworkCancel ==
    /\ pc = "network"
    /\ polling_task # NoTask
    /\ Cardinality(stop_calls) < MaxStopCalls
    /\ tasks' = cancel(tasks, polling_task)
    /\ stop_calls' = stop_calls \cup
           {[call |-> CHOOSE c \in 1..MaxStopCalls :
                          \A s \in stop_calls : s.call # c,
             awaited |-> polling_task]}
    /\ UNCHANGED polling_task
    /\ NetworkUnchanged

\* The CancelledError reaches the polling task, which re-raises it and ends.
PollingTaskCancelled(t) ==
    /\ pc = "network"
    /\ t \in 1..Len(tasks)
    /\ tasks[t] = "cancelling"
    /\ tasks' = [tasks EXCEPT ![t] = "done"]
    /\ UNCHANGED <<polling_task, stop_calls>>
    /\ NetworkUnchanged

\* stop_network after the await: the awaited task has ended, the recorded
\* task is cleared.
StopNetworkClear(c) ==
    /\ pc = "network"
    /\ \E s \in stop_calls :
          /\ s.call = c
          /\ tasks[s.awaited] = "done"
          /\ stop_calls' = stop_calls \ {s}
    /\ polling_task' = NoTask
    /\ UNCHANGED tasks
    /\ NetworkUnchanged

NextNetwork ==
    \/ StartNetwork
    \/ StopNetworkCancel
    \/ \E t \in 1..MaxTasks : PollingTaskCancelled(t)
    \/ \E c \in 1..MaxStopCalls : StopNetworkClear(c)

SpecNetwork == InitNetwork /\ [][NextNetwork]_vars

\* ------------------------------- RocketmanController.update_processed_data
\* The last values of the indicator series of a non-empty candles frame:
\* RSI and the lower band are NaN while their windows are not full, the
\* upper band is NaN together with the lower one, the EMA never is.
IndicatorValues ==
    {[rsi |-> r, bb_lower |-> l, ema |-> e,
      bb_upper |-> IF l.nan THEN NaN ELSE Val(l.num + 40 * l.den, l.den)] :
        r \in {NaN, Val(25, 1), Val(30, 1)},
        l \in {NaN, Val(990, 1), Val(1010, 1)},
        e \in {Val(995, 1), Val(1005, 1)}}

\* The Decimal prices get_quote_price returns.
QuotePrices == {1000, 1008}

\* float < int: false for NaN.
float_less(x, n) == ~x.nan /\ x.num < n * x.den

\* Decimal < float, for a float that is not NaN.
decimal_less(d, x) == d * x.den < x.num

\* rsi < 30 and current_price < bb_lower and current_price < ema, evaluated
\* left to right with short circuit: the value, and whether it raises
\* (Decimal < NaN raises InvalidOperation).
buy_condition(current_price, ind) ==
    /\ float_less(ind.rsi, 30)
    /\ decimal_less(current_price, ind.bb_lower)
    /\ decimal_less(current_price, ind.ema)

buy_condition_raises(current_price, ind) ==
    /\ float_less(ind.rsi, 30)
    /\ \/ ind.bb_lower.nan
       \/ decimal_less(current_price, ind.bb_lower) /\ ind.ema.nan

\* Lines 84-86: the dictionary stored after an exception.
processed_data_on_error == [current_price |-> NoPrice, signal |-> 0]

\* Lines 52-58 with the signal of lines 60-74.
processed_data_with(current_price, ind, signal) ==
    [current_price |-> current_price, rsi |-> ind.rsi, bb_lower |-> ind.bb_lower,
     bb_upper |-> ind.bb_upper, ema |-> ind.ema, signal |-> signal]

\* Variant: the signal does not look at the executors.
update_processed_data_any_executors(current_price, ind, active_executors, quote_raises) ==
    IF quote_raises THEN processed_data_on_error
    ELSE IF ind = None THEN [current_price |-> current_price, signal |-> 0]
    ELSE IF buy_condition_raises(current_price, ind) THEN processed_data_on_error
    ELSE processed_data_with(current_price, ind,
                             IF buy_condition(current_price, ind) THEN 1 ELSE 0)

\* update_processed_data: the dictionary it leaves in processed_data.  ind is
\* None when there is no candles frame or the frame is empty; quote_raises
\* when get_quote_price (or the candles lookup) raises.
update_processed_data(current_price, ind, active_executors, quote_raises) ==
    IF quote_raises THEN processed_data_on_error
    ELSE IF ind = None THEN [current_price |-> current_price, signal |-> 0]
    ELSE IF active_executors = <<>>
    THEN IF buy_condition_raises(current_price, ind) THEN processed_data_on_error
         ELSE processed_data_with(current_price, ind,
                                  IF buy_condition(current_price, ind) THEN 1 ELSE 0)
    ELSE processed_data_with(current_price, ind, 0)

InitController ==
    /\ pc = "controller"
    /\ CoreIdle
    /\ StrategyIdle
    /\ ServiceIdle

ControllerUnchanged ==
    UNCHANGED <<core_vars, create_actions, stop_actions, service_vars>>

\* update_processed_data runs from the price it awaited to its end; the
\* executor list is read then.  pc = "updated" right after it.
ControllerUpdate(current_price, ind, quote_raises) ==
    /\ pc \in {"controller", "updated"}
    /\ processed_data' = update_processed_data(current_price, ind, executors, quote_raises)
    /\ pc' = "updated"
    /\ UNCHANGED executors
    /\ ControllerUnchanged

\* create_position_executor: the new executor is appended to _executors.
ControllerCreateExecutor ==
    /\ pc \in {"controller", "updated"}
    /\ Len(executors) < MaxExecutors
    /\ executors' = Append(executors, Len(executors) + 1)
    /\ pc' = "controller"
    /\ UNCHANGED processed_data
    /\ ControllerUnchanged

NextController ==
    \/ \E current_price \in QuotePrices, ind \in IndicatorValues \cup {None}, quote_raises \in BOOLEAN : ControllerUpdate(current_price, ind, quote_raises)
    \/ ControllerCreateExecutor

SpecController == InitController /\ [][NextController]_vars

\* ------------------------------------ RocketmanStrategy (V2), start-up
MaxStrategyTicks == 3

\* Variant: on_tick does not look at _initialized.
on_tick_unchecked(is_initialized, is_ready_to_trade, queue_size) ==
    IF ~is_ready_to_trade THEN [update_tasks |-> 0, action_tasks |-> 0]
    ELSE [update_tasks |-> 1, action_tasks |-> queue_size]

\* on_tick: the update_processed_data tasks and the process_action tasks
\* it creates.
on_tick(is_initialized, is_ready_to_trade, queue_size) ==
    IF ~is_initialized THEN [update_tasks |-> 0, action_tasks |-> 0]
    ELSE IF ~is_ready_to_trade THEN [update_tasks |-> 0, action_tasks |-> 0]
    ELSE [update_tasks |-> 1, action_tasks |-> queue_size]

\* After __init__: the initialization task is created and has not run yet.
InitStartup ==
    /\ pc = "startup"
    /\ CoreIdle
    /\ StrategyIdle
    /\ ScriptIdle
    /\ TemplatesIdle
    /\ NetworkIdle
    /\ initialized = FALSE
    /\ initialization_task = "wait_connector"
    /\ controller = FALSE
    /\ connector_ready \in BOOLEAN
    /\ candles_ready \in BOOLEAN
    /\ ready_seen = <<>>
    /\ strategy_ticks = 0
    /\ update_tasks = 0
    /\ action_tasks = 0

StartupUnchanged ==
    UNCHANGED <<pc, core_vars, strategy_vars, script_vars, template_vars, network_vars>>

\* The connector or the candles feed changes what it reports.
ConnectorChanges ==
    /\ pc = "startup"
    /\ connector_ready' = ~connector_ready
    /\ UNCHANGED <<initialized, initialization_task, controller, candles_ready,
                   ready_seen, strategy_ticks, update_tasks, action_tasks>>
    /\ StartupUnchanged

CandlesFeedChanges ==
    /\ pc = "startup"
    /\ candles_ready' = ~candles_ready
    /\ UNCHANGED <<initialized, initialization_task, controller, connector_ready,
                   ready_seen, strategy_ticks, update_tasks, action_tasks>>
    /\ StartupUnchanged

\* One iteration of _wait_for_connector_ready, and on its return step 2 up
\* to the second wait: a timeout or an exception of initialize_candles_feed
\* fails the task, a connector that is not ready sleeps.
WaitForConnectorReady(timed_out, feed_raises) ==
    /\ pc = "startup"
    /\ initialization_task = "wait_connector"
    /\ IF timed_out
       THEN /\ initialization_task' = "failed"
            /\ UNCHANGED ready_seen
       ELSE IF connector_ready
       THEN /\ ready_seen' = Append(ready_seen, "connector")
            /\ initialization_task' = IF feed_raises THEN "failed" ELSE "wait_candles"
       ELSE UNCHANGED <<initialization_task, ready_seen>>
    /\ UNCHANGED <<initialized, controller, connector_ready, candles_ready,
                   strategy_ticks, update_tasks, action_tasks>>
    /\ StartupUnchanged

\* One iteration of _wait_for_candles_ready, and on its return step 3: the
\* controller is created and _initialized set, with nothing awaited between.
WaitForCandlesReady(timed_out, controller_raises) ==
    /\ pc = "startup"
    /\ initialization_task = "wait_candles"
    /\ IF timed_out
       THEN /\ initialization_task' = "failed"
            /\ UNCHANGED <<ready_seen, controller, initialized>>
       ELSE IF candles_ready
       THEN /\ ready_seen' = Append(ready_seen, "candles")
            /\ initialization_task' = IF controller_raises THEN "failed" ELSE "done"
            /\ controller' = ~controller_raises
            /\ initialized' = ~controller_raises
       ELSE UNCHANGED <<initialization_task, ready_seen, controller, initialized>>
    /\ UNCHANGED <<connector_ready, candles_ready, strategy_ticks, update_tasks,
                   action_tasks>>
    /\ StartupUnchanged

\* The clock calls on_tick; queue_size is what the controller's actions queue
\* holds then.
OnTick(is_ready_to_trade, queue_size) ==
    /\ pc = "startup"
    /\ strategy_ticks < MaxStrategyTicks
    /\ strategy_ticks' = strategy_ticks + 1
    /\ LET started == on_tick(initialized, is_ready_to_trade, queue_size)
       IN  /\ update_tasks' = update_tasks + started.update_tasks
           /\ action_tasks' = action_tasks + started.action_tasks
    /\ UNCHANGED <<initialized, initialization_task, controller, connector_ready,
                   candles_ready, ready_seen>>
    /\ StartupUnchanged

NextStartup ==
    \/ ConnectorChanges
    \/ CandlesFeedChanges
    \/ \E timed_out \in BOOLEAN, feed_raises \in BOOLEAN : WaitForConnectorReady(timed_out, feed_raises)
    \/ \E timed_out \in BOOLEAN, controller_raises \in BOOLEAN : WaitForCandlesReady(timed_out, controller_raises)
    \/ \E is_ready_to_trade \in BOOLEAN, queue_size \in {0, 1, 2} : OnTick(is_ready_to_trade, queue_size)

SpecStartup == InitStartup /\ [][NextStartup]_vars

\* ================================================================ claims
Replaying == pc \in {"loop", "returned", "analyzed"}
Returned == pc \in {"returned", "analyzed"}
LastEvent == events[Len(events)]

\* C1: replaying closes [100, 102, 101.4, 99] for a BUY entered at 100 with
\* amount 1, take-profit 0.05, activation delta 0.01 and trailing delta
\* 0.005, the position arms at t1 with trailing_stop_price = 102 and is still
\* open after that bar, the stop is still 102 after t2, and the run ends with
\* a trailing_stop event of negative PnL.
C1_Scenario ==
    /\ candles = Bars(<<1000, 1020, 1014, 990>>)
    /\ params = [IdleParams EXCEPT !.entry_price = 1000, !.amount = 1,
                    !.trade_type = BUY, !.take_profit_percentage = 50,
                    !.trailing_stop_activation_delta = 10,
                    !.trailing_stop_trailing_delta = 5]

C1_EndToEndScenario ==
    (C1_Scenario /\ Replaying) =>
        /\ idx = 3 => /\ pc = "loop"
                      /\ position.is_trailing_stop_activated
                      /\ position.trailing_stop_price = 1020
        /\ idx = 4 => /\ Len(events) = 3
                      /\ position.trailing_stop_price = 1020
        /\ Returned => /\ Len(events) >= 3
                       /\ LastEvent.type = "trailing_stop"
                       /\ LastEvent.pnl < 0

\* C2: once the trailing stop is armed, an update_price call never lowers
\* trailing_stop_price of a BUY position and never raises that of a SELL
\* position.
C2_MonotonicTrailingStop ==
    [][position.is_trailing_stop_activated =>
          IF position.trade_type = BUY
          THEN position'.trailing_stop_price >= position.trailing_stop_price
          ELSE position'.trailing_stop_price <= position.trailing_stop_price]_vars

C2_Witness ==
    /\ pc = "object"
    /\ position.trade_type = BUY
    /\ position.is_trailing_stop_activated
    /\ position.current_price < position.trailing_stop_price

\* C3: trailing_stop_price is None exactly while is_trailing_stop_activated
\* is false, and once the stop is armed no update_price call disarms it or
\* resets its price to None.
C3_StopPriceSetIffArmed ==
    /\ [](position.trailing_stop_price = NoPrice
            <=> ~position.is_trailing_stop_activated)
    /\ [][position.is_trailing_stop_activated =>
            /\ position'.is_trailing_stop_activated
            /\ position'.trailing_stop_price # NoPrice]_vars

C3_Witness ==
    /\ pc = "object"
    /\ position.trade_type = SELL
    /\ position.is_trailing_stop_activated
    /\ position.trailing_stop_price # NoPrice
    /\ position.current_price > position.entry_price

\* C4: when the bar just processed leaves the position satisfying both
\* should_take_profit() and should_stop_loss(), the event recorded for that
\* bar is take_profit.
C4_TakeProfitFirst ==
    (Replaying /\ events # <<>>
        /\ should_take_profit(position) /\ should_stop_loss(position))
    => LastEvent.type = "take_profit"

C4_Witness ==
    /\ Returned
    /\ events # <<>>
    /\ position.trade_type = BUY
    /\ position.current_price * FracScale >= position.take_profit_price
    /\ position.is_trailing_stop_activated
    /\ position.current_price <= position.trailing_stop_price
    /\ LastEvent.type = "take_profit"

\* C5: an update_price call on an unarmed position (entry_price > 0) arms it
\* exactly when the favourable move of the new price relative to entry is at
\* least the stored activation delta, and then seeds trailing_stop_price with
\* the new price.
FavourableMove(pos, price) ==
    IF pos.trade_type = BUY THEN price - pos.entry_price
    ELSE pos.entry_price - price

C5_ArmsAtThreshold ==
    [][(~position.is_trailing_stop_activated /\ position.entry_price > 0) =>
          /\ position'.is_trailing_stop_activated
                <=> FavourableMove(position, position'.current_price) * FracScale
                       >= position.trailing_stop_activation_price
                            * position.entry_price
          /\ position'.is_trailing_stop_activated
                => position'.trailing_stop_price = position'.current_price]_vars

C5_Witness ==
    /\ pc = "object"
    /\ position.is_trailing_stop_activated
    /\ position.trailing_stop_price = position.current_price
    /\ FavourableMove(position, position.current_price) * FracScale
          = position.trailing_stop_activation_price * position.entry_price

\* C6: an opened position's take_profit_price is entry_price * (1 + pct) for
\* BUY and entry_price * (1 - pct) for SELL, in simulate_position and in the
\* live controller's fill handling.
ClaimedTakeProfit(entry_price, trade_type, pct) ==
    IF trade_type = BUY
    THEN entry_price * (FracScale + pct)
    ELSE entry_price * (FracScale - pct)

C6_TakeProfitPriceBySide ==
    /\ (Replaying /\ candles # <<>>) =>
          position.take_profit_price
             = ClaimedTakeProfit(position.entry_price, position.trade_type,
                                 params.take_profit_percentage)
    /\ \A k \in DOMAIN active_positions :
          active_positions[k].take_profit_price
             = ClaimedTakeProfit(active_positions[k].entry_price,
                                 active_positions[k].trade_type,
                                 params.take_profit_percentage)

\* C7: simulate_position appends one event per processed bar, in bar order
\* with the bar's timestamp and close; every event but the last is an update;
\* after a take_profit or trailing_stop event no further bar is processed;
\* the returned position's current_price is the last event's price.
C7_OneEventPerBar ==
    (Replaying /\ candles # <<>>) =>
        /\ Len(events) = idx - 1
        /\ Len(events) <= Len(candles)
        /\ \A i \in 1..Len(events) :
              /\ events[i].timestamp = candles[i].timestamp
              /\ events[i].price = candles[i].close
              /\ i < Len(events) => events[i].type = "update"
        /\ (events # <<>> /\ LastEvent.type # "update") => Returned
        /\ (Returned /\ events # <<>>) => position.current_price = LastEvent.price

C7_Witness ==
    /\ Returned
    /\ Len(events) >= 2
    /\ Len(events) < Len(candles)
    /\ LastEvent.type \in {"take_profit", "trailing_stop"}
    /\ position.current_price = LastEvent.price

\* C8: when a non-empty bar sequence is exhausted without a take-profit or
\* trailing-stop exit, analyze_backtest_results reports
\* exit_reason = "end_of_data".
C8_EndOfDataReason ==
    (pc = "analyzed" /\ events # <<>> /\ LastEvent.type = "update")
    => metrics.exit_reason = "end_of_data"

\* C9: simulate_position called with an empty bar sequence returns no
\* position and an empty event log, whatever the other parameters, and does
\* not raise.
C9_EmptyInput ==
    (candles = <<>> /\ pc \notin {"call", "live"}) =>
        /\ Returned
        /\ position = None
        /\ events = <<>>
        /\ ~raised

C9_Witness ==
    /\ candles = <<>>
    /\ pc = "returned"
    /\ position = None
    /\ params.entry_price = 0

\* C10: in run_parameter_optimization an error raised for one combination
\* does not leave the call, and the call returns one result per combination
\* of the grid.
C10_FailureIsolation ==
    /\ sweep_pc # "raised"
    /\ (sweep_pc = "returned" /\ candles # <<>>)
          => Len(results) = total_combinations(ranges)

\* ------------------------------------------------------------ C11 - C20
SweepEnded == sweep_pc \in {"returned", "raised"}

\* The outcome of the grid's k-th combination run on its own.
PerCombination(k) ==
    run_combination(candles, candles[1].close, params.amount, params.trade_type,
                    combination(ranges, k))

ParametersTag(c) ==
    [take_profit_percentage |-> c.tp,
     trailing_stop_activation_delta |-> c.tsa,
     trailing_stop_trailing_delta |-> c.tst]

\* C11: given a non-empty bar sequence, run_parameter_optimization ends
\* having run the loop body once per element of the cartesian product of the
\* three ranges, with exactly one result per combination, tagged with that
\* combination's parameters.
C11_OneResultPerCombination ==
    (SweepEnded /\ candles # <<>>) =>
        /\ current = total_combinations(ranges)
        /\ Len(results) = total_combinations(ranges)
        /\ \A k \in 1..total_combinations(ranges) :
              Cardinality({i \in 1..Len(results) :
                              results[i].parameters = ParametersTag(combination(ranges, k))})
                = Cardinality({j \in 1..total_combinations(ranges) :
                                  combination(ranges, j) = combination(ranges, k)})

\* C12: the list run_parameter_optimization returns is ordered by
\* non-increasing final_pnl_percentage and is a permutation of the
\* per-combination results.
PctGeq(a, b) == a[1] * b[2] >= b[1] * a[2]

C12_SortedDescending ==
    (sweep_pc = "returned" /\ candles # <<>>) =>
        /\ \A i \in 1..(Len(results) - 1) :
              PctGeq(results[i].final_pnl_percentage,
                     results[i + 1].final_pnl_percentage)
        /\ Len(results) = total_combinations(ranges)
        /\ \A k \in 1..total_combinations(ranges) :
              Cardinality({i \in 1..Len(results) : results[i] = PerCombination(k).result})
                = Cardinality({j \in 1..total_combinations(ranges) :
                                  PerCombination(j).result = PerCombination(k).result})

C12_Witness ==
    /\ sweep_pc = "returned"
    /\ Len(results) >= 2
    /\ results[1] # PerCombination(1).result
    /\ ~PctGeq(results[Len(results)].final_pnl_percentage,
               results[1].final_pnl_percentage)

\* C14: for a non-empty event log, max_drawdown is the largest
\* pnl[i] - pnl[j] over i <= j, is never negative, and is zero when pnl never
\* falls below an earlier value.
DropsInOrder ==
    {events[i].pnl - events[j].pnl :
        <<i, j>> \in {q \in (1..Len(events)) \X (1..Len(events)) : q[1] <= q[2]}}

C14_MaxDrawdown ==
    (pc = "analyzed" /\ events # <<>>) =>
        /\ metrics.max_drawdown \in DropsInOrder
        /\ \A d \in DropsInOrder : d <= metrics.max_drawdown
        /\ metrics.max_drawdown >= 0
        /\ (\A i \in 1..Len(events), j \in 1..Len(events) :
               i <= j => events[j].pnl >= events[i].pnl)
           => metrics.max_drawdown = 0

C14_Witness ==
    /\ pc = "analyzed"
    /\ Len(events) >= 3
    /\ metrics.max_drawdown > 0
    /\ metrics.max_drawdown < metrics.max_pnl - metrics.min_pnl
    /\ LastEvent.pnl > metrics.min_pnl

\* C15: for a non-empty event log, final_pnl and final_pnl_percentage are
\* the last event's, max_pnl / min_pnl are the largest / smallest pnl of the
\* log (so min_pnl <= final_pnl <= max_pnl), and start_timestamp /
\* end_timestamp are the first and last events' timestamps.
C15_FinalAndExtremes ==
    (pc = "analyzed" /\ events # <<>>) =>
        /\ metrics.final_pnl = LastEvent.pnl
        /\ metrics.final_pnl_percentage = LastEvent.pnl_percentage
        /\ \E i \in 1..Len(events) : metrics.max_pnl = events[i].pnl
        /\ \E i \in 1..Len(events) : metrics.min_pnl = events[i].pnl
        /\ \A i \in 1..Len(events) :
              metrics.min_pnl <= events[i].pnl /\ events[i].pnl <= metrics.max_pnl
        /\ metrics.min_pnl <= metrics.final_pnl
        /\ metrics.final_pnl <= metrics.max_pnl
        /\ metrics.start_timestamp = events[1].timestamp
        /\ metrics.end_timestamp = LastEvent.timestamp

C15_Witness ==
    /\ pc = "analyzed"
    /\ Len(events) >= 3
    /\ metrics.min_pnl < metrics.final_pnl
    /\ metrics.final_pnl < metrics.max_pnl
    /\ metrics.max_pnl # events[1].pnl

\* C16: in every state of a PositionState, unrealized_pnl is
\* (current_price - entry_price) * amount for BUY and
\* (entry_price - current_price) * amount for SELL, and
\* unrealized_pnl_percentage is unrealized_pnl / (entry_price * amount) * 100
\* (where that quotient exists); a SELL position's PnL is positive exactly
\* when current_price is below entry_price.
C16_PnlFormula ==
    pc = "object" =>
        /\ unrealized_pnl(position)
              = IF position.trade_type = BUY
                THEN (position.current_price - position.entry_price) * position.amount
                ELSE (position.entry_price - position.current_price) * position.amount
        /\ position.entry_price * position.amount # 0 =>
              LET q == unrealized_pnl_percentage(position)
              IN  /\ q[2] > 0
                  /\ q[1] * (position.entry_price * position.amount)
                        = unrealized_pnl(position) * 100 * q[2]
        /\ position.trade_type = SELL =>
              (unrealized_pnl(position) > 0
                  <=> position.current_price < position.entry_price)

C16_Witness ==
    /\ pc = "object"
    /\ position.trade_type = SELL
    /\ position.entry_price = 1000
    /\ position.amount = 10
    /\ position.current_price = 900
    /\ unrealized_pnl(position) = 1000
    /\ unrealized_pnl_percentage(position) = <<10, 1>>

\* C17: a run with a non-positive amount, take-profit percentage, activation
\* delta or trailing delta is rejected with an error before any bar is
\* processed, and never produces an event log.
NonPositive(q) ==
    \/ q.amount <= 0
    \/ q.take_profit_percentage <= 0
    \/ q.trailing_stop_activation_delta <= 0
    \/ q.trailing_stop_trailing_delta <= 0

C17_NonPositiveRejected ==
    NonPositive(params) =>
        /\ events = <<>>
        /\ pc # "call" => (pc = "raised" /\ idx <= 1)

\* C18: a replay whose entry_price is zero never raises a division error,
\* in update_price or in unrealized_pnl_percentage, for any bar sequence.
C18_ZeroEntryGuarded ==
    params.entry_price = 0 => (pc # "raised" /\ ~raised)

\* C19: when the load yields no candles (the source returned none, or the
\* fetch raised and load_candles swallowed it), run_backtest returns the
\* empty result, which is reported as "No backtest results available", and
\* run_parameter_optimization returns an empty list having run no
\* combination; neither raises, neither simulates, neither reports a trade.
C19_NoCandles ==
    (candles = <<>> /\ pc # "executor") =>
        /\ pc \in {"backtest_returned", "sweep"}
        /\ ~raised
        /\ position = None
        /\ events = <<>>
        /\ pc = "backtest_returned" =>
              /\ "final_pnl" \notin DOMAIN metrics
              /\ format_backtest_results(metrics) = "No backtest results available"
        /\ pc = "sweep" =>
              /\ sweep_pc = "returned"
              /\ results = <<>>
              /\ current = 0

C19_Witness ==
    /\ candles = <<>>
    /\ pc = "backtest_returned"
    /\ DOMAIN metrics = {}

\* C20: for every close series and period p, calculate_rsi is absent (NaN)
\* at exactly the indices 0..p-1 and, where the window's average loss is
\* non-zero, defined at every index >= p (indices are 0-based: index i is
\* position i + 1); so RSI(14) over 20 closes is first defined at index 14.
C20_RsiWarmUp ==
    pc = "calculated" =>
        \A i \in 0..(Len(candles_df) - 1) :
            /\ i < period => rsi[i + 1].nan
            /\ (i >= period /\ ~average_loss(candles_df, period)[i + 1].nan
                  /\ average_loss(candles_df, period)[i + 1].num # 0)
                   => ~rsi[i + 1].nan

\* C21: at every index i >= p (the trailing window of p deltas is complete)
\* where the window's average loss is zero, whatever the average gain,
\* calculate_rsi reports 100, never an undefined value.
C21_SaturatesAtZeroLoss ==
    pc = "calculated" =>
        \A i \in 0..(Len(candles_df) - 1) :
            (i >= period /\ ~average_loss(candles_df, period)[i + 1].nan
                /\ average_loss(candles_df, period)[i + 1].num = 0)
                => rsi[i + 1] = Val(100, 1)

\* ---------------------------------------------------------------- C25 - C27
SetMax(S) == CHOOSE x \in S : \A y \in S : y <= x
SetMin(S) == CHOOSE x \in S : \A y \in S : x <= y

\* C25: after any sequence of update_price calls, the trailing_stop_price of
\* an armed position is the maximum (BUY) or minimum (SELL) of all prices
\* passed to update_price from the arming call onward.
C25_StopIsExtremeSinceArming ==
    (pc = "object" /\ position.is_trailing_stop_activated) =>
        /\ prices_since_armed # {}
        /\ position.trailing_stop_price =
               IF position.trade_type = BUY
               THEN SetMax(prices_since_armed)
               ELSE SetMin(prices_since_armed)

C25_Witness ==
    /\ pc = "object"
    /\ position.is_trailing_stop_activated
    /\ Cardinality(prices_since_armed) >= 3
    /\ position.current_price # position.trailing_stop_price

\* C26: update_price changes only current_price, is_trailing_stop_activated
\* and trailing_stop_price: after any sequence of calls take_profit_price,
\* entry_price, amount, trade_type, trading_pair and the stored activation
\* delta are what the construction gave them.
C26_FrameOfUpdatePrice ==
    pc = "object" =>
        /\ position.entry_price = params.entry_price
        /\ position.amount = params.amount
        /\ position.trade_type = params.trade_type
        /\ position.trading_pair = "UNKNOWN"
        /\ position.trailing_stop_activation_price = params.trailing_stop_activation_delta
        /\ position.take_profit_price =
               take_profit_price_at_entry(params.entry_price, params.trade_type,
                                          params.take_profit_percentage)

C26_Witness ==
    /\ pc = "object"
    /\ position.is_trailing_stop_activated
    /\ position.current_price # position.entry_price
    /\ position.trailing_stop_price # position.current_price
    /\ position.take_profit_price = position.entry_price * (FracScale + 50)

\* C27: should_stop_loss() is false whenever the trailing stop is not armed,
\* so a trailing_stop event is recorded only on a bar at which the position
\* is armed, and a replay that returns with an unarmed position ended by
\* take_profit or ran through every bar.
C27_StopOnlyWhenArmed ==
    (Replaying /\ position # None) =>
        /\ ~position.is_trailing_stop_activated => ~should_stop_loss(position)
        /\ (events # <<>> /\ LastEvent.type = "trailing_stop")
              => position.is_trailing_stop_activated
        /\ (Returned /\ ~position.is_trailing_stop_activated)
              => \/ LastEvent.type = "take_profit"
                 \/ LastEvent.type = "update" /\ Len(events) = Len(candles)

C27_Witness ==
    /\ Returned
    /\ events # <<>>
    /\ LastEvent.type = "trailing_stop"
    /\ position.is_trailing_stop_activated
    /\ Len(events) >= 2

\* ---------------------------------------------------------------- C22 - C23
Fetched == pc \in {"fetched_birdeye_api", "fetched_birdeye_candles", "fetched_bitquery"}
WellFormed(item) == item.missing = {}

\* C22: the bar sequence every fetcher returns is strictly increasing in
\* timestamp: sorted ascending, with the records of one timestamp collapsed
\* to the last of them in the response.
C22_StrictlyIncreasing ==
    Fetched =>
        /\ \A i \in 1..(Len(bars) - 1) : bars[i].timestamp < bars[i + 1].timestamp
        /\ (\A j \in 1..Len(response) : WellFormed(response[j])) =>
              \A j \in 1..Len(response) :
                  (\A k \in (j + 1)..Len(response) : response[k].time # response[j].time)
                      => \E i \in 1..Len(bars) : bars[i] = candle_of(response[j])

\* C23: a record lacking a required field is dropped alone: every
\* well-formed record of the same response is still returned.
C23_BadRecordDroppedAlone ==
    Fetched =>
        \A j \in 1..Len(response) :
            WellFormed(response[j])
                => \E i \in 1..Len(bars) : bars[i] = candle_of(response[j])

\* C24: each evaluation of the live strategy yields exactly one of
\* no_action, enter or exit: the create and the stop proposal are never both
\* non-empty, and an enter action is produced only on signal = 1, as one BUY
\* action with the configured amount and the current price.
C24_TriStateDecision ==
    pc = "evaluated" =>
        /\ ~(create_actions # <<>> /\ stop_actions # <<>>)
        /\ create_actions # <<>> =>
              /\ processed_data.signal = 1
              /\ Len(create_actions) = 1
              /\ create_actions[1].side = BUY
              /\ create_actions[1].amount = params.amount
              /\ create_actions[1].entry_price = processed_data.current_price
        /\ stop_actions # <<>> => processed_data.signal = 0

C24_Witness ==
    /\ pc = "evaluated"
    /\ create_actions # <<>>
    /\ stop_actions = <<>>
    /\ executors # <<>>
    /\ params.amount = 10

\* ---------------------------------------------------------------- C28 - C30
\* The candles of the aggregator: those delivered, and the one in progress.
AggregatorCandles ==
    {delivered[i] : i \in 1..Len(delivered)}
        \cup (IF current_candle = None THEN {} ELSE {candle_data(current_candle)})

FirstBatchFolded ==
    /\ pc = "polling"
    /\ batch # <<>>
    /\ polled = batch
    /\ batch_idx > Len(batch)

InBucket(b) == {i \in 1..Len(batch) : candle_timestamp(batch[i].time, interval) = b}

RECURSIVE SumAmounts(_)
SumAmounts(I) ==
    IF I = {} THEN 0
    ELSE LET i == CHOOSE j \in I : TRUE IN batch[i].amount + SumAmounts(I \ {i})

\* C28: for any batch of distinct trades, in any order, each bucket of the
\* batch has exactly one candle, with volume the sum of the amounts and
\* trades the count of the batch's trades in the bucket, open the price of
\* an earliest and close the price of a latest trade by time, high and low
\* the maximum and minimum price.
C28_BatchFoldedIntoCandles ==
    (FirstBatchFolded /\ \A i, j \in 1..Len(batch) : i # j => batch[i] # batch[j]) =>
        \A k \in 1..Len(batch) :
            LET b == candle_timestamp(batch[k].time, interval)
                I == InBucket(b)
                cs == {c \in AggregatorCandles : c.timestamp = b * 1000}
            IN  /\ Cardinality(cs) = 1
                /\ \A c \in cs :
                      /\ c.volume = SumAmounts(I)
                      /\ c.trades = Cardinality(I)
                      /\ c.high = SetMax({batch[i].price : i \in I})
                      /\ c.low = SetMin({batch[i].price : i \in I})
                      /\ \E i \in I : /\ c.open = batch[i].price
                                      /\ \A j \in I : batch[i].time <= batch[j].time
                      /\ \E i \in I : /\ c.close = batch[i].price
                                      /\ \A j \in I : batch[j].time <= batch[i].time

WellShaped(c) ==
    /\ c.low <= Min(c.open, c.close)
    /\ Min(c.open, c.close) <= Max(c.open, c.close)
    /\ Max(c.open, c.close) <= c.high
    /\ c.trades >= 1

\* C29: the candle in progress and every delivered candle satisfy
\* low <= min(open, close) <= max(open, close) <= high and trades >= 1.
C29_CandleShape ==
    pc = "polling" => \A c \in AggregatorCandles : WellShaped(c)

C29_Witness ==
    /\ pc = "polling"
    /\ current_candle # None
    /\ Len(delivered) >= 1
    /\ delivered[1].trades >= 2
    /\ delivered[1].low < delivered[1].high

\* C30: the bucket of a trade with timestamp ts under interval width w is
\* floor(ts / w) * w, a multiple of w with bucket <= ts < bucket + w, and
\* the trades folded into one candle all have the candle's bucket.
C30_BucketIsFloor ==
    (pc = "polling" /\ current_candle # None) =>
        /\ current_candle.timestamp % interval = 0
        /\ candle_trades # <<>>
        /\ \A i \in 1..Len(candle_trades) :
              /\ current_candle.timestamp = (candle_trades[i].time \div interval) * interval
              /\ current_candle.timestamp <= candle_trades[i].time
              /\ candle_trades[i].time < current_candle.timestamp + interval

C30_Witness ==
    /\ pc = "polling"
    /\ interval = 60
    /\ current_candle # None
    /\ Len(candle_trades) = 2
    /\ candle_trades[1].time # candle_trades[2].time
    /\ Len(delivered) = 0
    /\ batch_idx <= Len(batch)

\* The metrics of a sweep result without its parameters tag.
MetricsOf(result) == [k \in DOMAIN result \ {"parameters"} |-> result[k]]

DifferOnlyInTrailingDelta(a, b) ==
    /\ a.parameters.take_profit_percentage = b.parameters.take_profit_percentage
    /\ a.parameters.trailing_stop_activation_delta
          = b.parameters.trailing_stop_activation_delta
    /\ a.parameters.trailing_stop_trailing_delta
          # b.parameters.trailing_stop_trailing_delta

AtOrBeyondStop(pos) ==
    IF pos.trade_type = BUY
    THEN pos.current_price <= pos.trailing_stop_price
    ELSE pos.current_price >= pos.trailing_stop_price

NextBucket == candle_timestamp(batch[batch_idx].time, interval)

OpensBucket ==
    /\ pc = "polling"
    /\ batch_idx <= Len(batch)
    /\ ~already_processed(last_trade_time, batch[batch_idx].time)
    /\ current_candle # None
    /\ NextBucket # current_candle.timestamp

\* C37: the polling aggregator hands over only closed buckets, in strictly
\* increasing timestamp order and each at most once: every delivered candle
\* is older than the open one, and a candle is delivered exactly in the step
\* that folds the first trade of a strictly later bucket, across polls.
C37_OnlyClosedBucketsDelivered ==
    /\ [](pc = "polling" =>
            /\ \A i \in 1..(Len(delivered) - 1) :
                  delivered[i].timestamp < delivered[i + 1].timestamp
            /\ \A i \in 1..Len(delivered) :
                  /\ current_candle # None
                  /\ delivered[i].timestamp < current_candle.timestamp * 1000)
    /\ [][/\ (delivered' # delivered) <=>
                 (OpensBucket /\ NextBucket > current_candle.timestamp)
          /\ OpensBucket =>
                 /\ delivered' = Append(delivered, candle_data(current_candle))
                 /\ current_candle'.timestamp = NextBucket
                 /\ current_candle'.timestamp > current_candle.timestamp
                 /\ current_candle'.trades = 1]_vars

C37_Witness ==
    /\ pc = "polling"
    /\ interval = 60
    /\ Len(delivered) = 2
    /\ delivered[1].trades = 1
    /\ current_candle # None
    /\ Len(batch) < Len(polled)

\* The combination a sweep result is tagged with.
CombinationOf(result) ==
    [tp |-> result.parameters.take_profit_percentage,
     tsa |-> result.parameters.trailing_stop_activation_delta,
     tst |-> result.parameters.trailing_stop_trailing_delta]

\* simulate_position called for one combination on its own.
RunAlone(c) ==
    simulate_position(candles, candles[1].close, params.amount, params.trade_type,
                      c.tp, c.tsa, c.tst)

\* C31: within a parameter sweep the metrics recorded for a combination are
\* those of simulate_position and analyze_backtest_results run on that
\* combination alone, whatever combinations ran before it: every run starts
\* from a fresh PositionState and an empty log, and no step of any run
\* changes the shared bar sequence.
C31_RunsAreIndependent ==
    /\ []((pc = "sweep" /\ sweep_pc # "call" /\ candles # <<>>) =>
            /\ \A i \in 1..Len(results) :
                  /\ ~RunAlone(CombinationOf(results[i])).raised
                  /\ results[i] = test_results(RunAlone(CombinationOf(results[i])).events,
                                               CombinationOf(results[i]))
            /\ (sweep_pc = "run" /\ idx = 1) =>
                  /\ events = <<>>
                  /\ position = simulate_position_enter(candles, candles[1].close,
                                    params.amount, params.trade_type,
                                    combination(ranges, current).tp,
                                    combination(ranges, current).tsa).position)
    /\ [][candles' = candles]_vars

C31_Witness ==
    /\ sweep_pc = "returned"
    /\ Len(results) = 4
    /\ \E i, j \in 1..4 :
          /\ results[i].exit_reason = "take_profit"
          /\ results[j].exit_reason = "trailing_stop"
    /\ CombinationOf(results[1]) # combination(ranges, 1)
    /\ Len(candles) = 3

\* The prices the script processed while the stop loss had not triggered.
PricesBeforeTrigger ==
    {observed_prices[i].price :
        i \in {j \in 1..Len(observed_prices) : ~observed_prices[j].triggered}}

\* C35: in the ai16z trailing-stop script, once tracking has started,
\* stop_price equals highest_observed_price * (1 - trailing_stop_pct),
\* highest_observed_price is the maximum price observed before the trigger,
\* and neither value ever decreases, whatever the price does.
C35_StopFollowsHighest ==
    /\ []((pc = "script" /\ is_tracking) =>
            /\ stop_price = highest_observed_price * (FracScale - trailing_stop_pct)
            /\ highest_observed_price = SetMax(PricesBeforeTrigger))
    /\ [][(pc = "script" /\ is_tracking) =>
            /\ highest_observed_price' >= highest_observed_price
            /\ stop_price' >= stop_price]_vars

C35_Witness ==
    /\ pc = "script"
    /\ Len(observed_prices) = 3
    /\ observed_prices[1].price = 1000
    /\ observed_prices[2].price = 1002
    /\ observed_prices[3].price = 1001
    /\ ~stop_loss_triggered
    /\ highest_observed_price = 1002

\* The processed prices, after the one that started tracking, that met a stop
\* at or above them.
AtOrBelowStop ==
    {i \in 2..Len(observed_prices) :
        observed_prices[i].price * FracScale <= observed_prices[i].stop_price}

\* C36: under any interleaving of the on_tick tasks, execute_stop_loss is
\* scheduled at most once, by the first processed price after tracking
\* started that is <= stop_price; stop_loss_triggered then stays true and
\* highest_observed_price and stop_price no longer change.
C36_StopLossScheduledOnce ==
    /\ [](pc = "script" =>
            /\ Len(stop_loss_tasks) <= 1
            /\ stop_loss_triggered <=> Len(stop_loss_tasks) = 1
            /\ stop_loss_triggered <=> AtOrBelowStop # {}
            /\ stop_loss_triggered =>
                  stop_loss_tasks[1] = observed_prices[SetMin(AtOrBelowStop)].price)
    /\ [][(pc = "script" /\ stop_loss_triggered) =>
            /\ stop_loss_triggered'
            /\ highest_observed_price' = highest_observed_price
            /\ stop_price' = stop_price
            /\ stop_loss_tasks' = stop_loss_tasks]_vars

C36_Witness ==
    /\ pc = "script"
    /\ stop_loss_triggered
    /\ Len(observed_prices) = 3
    /\ observed_prices[1].tick = 2
    /\ observed_prices[2].tick = 1
    /\ observed_prices[2].triggered
    /\ observed_prices[3].price = observed_prices[2].price
    /\ Cardinality(AtOrBelowStop) = 2

\* A sent query carries the token of the feed that sent it and, for a
\* historical fetch, the time range that call was given.
CarriesOwnValues(q) ==
    /\ q.variables.token = ex_trading_pair(q.feed)
    /\ q.template = "OHLC_QUERY" =>
          /\ q.variables.from = q.start_time
          /\ q.variables.till = q.end_time

\* C32: fetch_candles and _start_polling leave the module-level query
\* templates OHLC_QUERY and TRADES_QUERY as they were, and with two feeds for
\* different tokens interleaved every query sent carries only the token and
\* the time range of the feed that sent it.
C32_TemplatesUntouched ==
    pc = "templates" =>
        /\ ohlc_variables = [network |-> "mainnet", token |-> "", from |-> 0,
                             till |-> 0, interval |-> 1]
        /\ trades_variables = [network |-> "mainnet", token |-> ""]
        /\ \A i \in 1..Len(sent_queries) : CarriesOwnValues(sent_queries[i])

\* A polling task that has not ended.
Alive(t) == tasks[t] # "done"

\* C39: under any interleaving of start_network and stop_network calls on a
\* feed, at most one polling task is alive at any time.
C39_AtMostOnePollingTask ==
    pc = "network" => Cardinality({t \in 1..Len(tasks) : Alive(t)}) <= 1

\* The stored values satisfy RSI < 30 and price below the lower band and
\* below the EMA.
StoredBuyCondition ==
    /\ "rsi" \in DOMAIN processed_data
    /\ ~processed_data.rsi.nan
    /\ processed_data.rsi.num < 30 * processed_data.rsi.den
    /\ ~processed_data.bb_lower.nan
    /\ processed_data.current_price * processed_data.bb_lower.den
          < processed_data.bb_lower.num
    /\ ~processed_data.ema.nan
    /\ processed_data.current_price * processed_data.ema.den < processed_data.ema.num

\* C38: once create_position_executor has added an executor, every later
\* update_processed_data leaves signal 0, forever: the executor list only
\* grows, and the controller produces a buy signal (1) only while no executor
\* has been created and only when RSI < 30 and the price is below both the
\* lower Bollinger band and the EMA.
C38_SignalOnlyWithoutExecutor ==
    /\ [](pc = "updated" =>
            /\ executors # <<>> => processed_data.signal = 0
            /\ processed_data.signal = 1 => (executors = <<>> /\ StoredBuyCondition))
    /\ [][(pc \in {"controller", "updated"}) =>
            /\ Len(executors') >= Len(executors)
            /\ SubSeq(executors', 1, Len(executors)) = executors]_vars

C38_Witness ==
    /\ pc = "updated"
    /\ executors # <<>>
    /\ StoredBuyCondition
    /\ processed_data.signal = 0

\* The two waits of _initialize_strategy observe, in this order.
ReadyOrder == <<"connector", "candles">>

\* C40: in the V2 strategy _initialized becomes true only after the
\* connector and then the candles feed have been observed ready, in that
\* order, and the controller exists only after both; while _initialized is
\* false no on_tick starts an update of the processed data or processes a
\* controller action, and once the initialization has failed _initialized
\* stays false.
C40_InitializedOnlyAfterBothReady ==
    /\ [](pc = "startup" =>
            /\ ready_seen = SubSeq(ReadyOrder, 1, Len(ready_seen))
            /\ initialized => (ready_seen = ReadyOrder /\ controller)
            /\ controller => ready_seen = ReadyOrder
            /\ ~initialized => (update_tasks = 0 /\ action_tasks = 0)
            /\ initialization_task = "failed" => ~initialized)
    /\ [][(pc = "startup") =>
            /\ ~initialized =>
                  (update_tasks' = update_tasks /\ action_tasks' = action_tasks)
            /\ initialization_task = "failed" =>
                  (initialization_task' = "failed" /\ ~initialized')
            /\ initialized => initialized']_vars

C40_Witness ==
    /\ pc = "startup"
    /\ initialized
    /\ ~connector_ready
    /\ strategy_ticks = 3
    /\ update_tasks = 1
    /\ action_tasks = 2

====
